---------------------------- MODULE Spec2Model ----------------------------
(***************************************************************************)
(* A state-machine model of the spoiler-detection notebook (code.ipynb).   *)
(*                                                                         *)
(* The notebook is a linear batch script of five stages:                   *)
(*   1. Join & Filter            (cells 6 and 8)                           *)
(*   2. Feature extraction       (cell 10, a pool of max_workers threads)  *)
(*   3. Scaling                  (cell 10, MinMaxScaler)                   *)
(*   4. Split and vectorization  (cells 11, 13 and 15)                     *)
(*   5. Training and evaluation  (cell 17)                                 *)
(* The main thread's position is pc; the only concurrent region is the     *)
(* ThreadPoolExecutor of stage 2.  Files on disk are the variable files.   *)
(*                                                                         *)
(* Library routines (pandas, concurrent.futures, scikit-learn, spaCy) are  *)
(* modelled at the call site by what the called routine computes.  Values  *)
(* the libraries hold as floating-point numbers are kept as exact          *)
(* fractions [num, den]; TF-IDF weights are kept as the n-gram counts they *)
(* are computed from.                                                      *)
(***************************************************************************)
EXTENDS Integers, Sequences, FiniteSets, TLC

VARIABLES
    pc,                 \* position of the main thread in the notebook
    err,                \* the exception that ended the run, or "none"
    files,              \* the data/ directory: file name -> [exists, data]
    df_reviews,         \* cell 6/8: reviews table
    df_movies,          \* cell 6/8: movie table (filtered, then date-converted)
    merged_df,          \* cell 8: result of pd.merge with the derived columns
    df,                 \* cell 10: the capped CSV table, later the feature table
    labels,             \* cell 10/11: is_spoiler column as a list
    texts,              \* cell 10: review_combined column as a list
    days_since_review,  \* cell 10: days_since_release column as a list
    future_results,     \* cell 10: the futures, in submission order
    executor,           \* executor: [idle_semaphore, shutdown]
    work_queue,         \* executor: submitted tasks no worker has taken yet
    workers,            \* executor: worker thread -> [spawned, task, exited]
    waiter,             \* as_completed: [installed, initial, finished]
    yielded,            \* as_completed: futures already handed to the loop
    processed_texts,    \* cell 10: collected feature rows; cell 11: scaled table
    scaler,             \* cell 10: the fitted MinMaxScaler [fits, data_min, data_max]
    split,              \* cell 13: [X_train, X_test, y_train, y_test, train, test]
    vectorizer,         \* cell 15: [fits, vocabulary]
    combined,           \* cell 15: [cols_train, cols_test, X_train, X_test]
    stage5              \* cell 17: what was loaded, fitted on and predicted

vars == <<pc, err, files, df_reviews, df_movies, merged_df, df, labels, texts,
          days_since_review, future_results, executor, work_queue, workers,
          waiter, yielded, processed_texts, scaler, split, vectorizer, combined, stage5>>

-----------------------------------------------------------------------------
(* Bounds of the model *)

\* longest reviews table explored by the join specification
MaxJoinReviews == 2
\* longest movie table explored by the join specification
MaxJoinMovies == 2

-----------------------------------------------------------------------------
(* Generic helpers *)

Range(s) == {s[i] : i \in 1..Len(s)}

\* number of positions of sequence s whose element satisfies Test
Count(s, Test(_)) == Cardinality({i \in 1..Len(s) : Test(s[i])})

\* all sequences over S of length 0..n
SeqsUpTo(S, n) == UNION {[1..k -> S] : k \in 0..n}

RECURSIVE Flatten(_)
\* concatenation of a sequence of sequences
Flatten(ss) == IF ss = <<>> THEN <<>> ELSE Head(ss) \o Flatten(Tail(ss))

-----------------------------------------------------------------------------
(* Files *)

REVIEWS_JSON == "data/IMDB_reviews.json"
MOVIES_JSON == "data/IMDB_movie_details.json"
MERGED_CSV == "data/review_with_labels_withDateDiff.csv"
BEFORE_SCALING_PKL == "data/processed_texts_BEFORE_SCALING_full_with_pos_ner_counts_datediff.pkl"
PROCESSED_PKL == "data/processed_texts_full_with_pos_ner_counts_datediff.pkl"
LABELS_PKL == "data/labels_full_with_pos_ner_count_datediff.pkl"
X_TRAIN_PKL == "data/X_train_vectorized_full_ngram13_maxdf9_pos_ner_counts_strat_feat_100k.pkl"
Y_TRAIN_PKL == "data/y_train_full_ngram13_maxdf9_pos_ner_counts_strat_feat_100k.pkl"
X_TEST_PKL == "data/X_test_vectorized_full_ngram13_maxdf9_pos_ner_counts_strat_feat_100k.pkl"
Y_TEST_PKL == "data/y_test_full_ngram13_maxdf9_pos_ner_counts_strat_feat_100k.pkl"
Y_PRED_PKL == "data/y_pred_xgboost_200est_LR02_ngram13_maxdf9_pos_ner_counts_strat_feat_100k.pkl"
Y_PROBA_PKL == "data/y_pred_proba_xgboost_200est_LR02_ngram13_maxdf9_pos_ner_counts_strat_feat_100k.pkl"

InputFiles == {REVIEWS_JSON, MOVIES_JSON}

CheckpointFiles == {MERGED_CSV, BEFORE_SCALING_PKL, PROCESSED_PKL, LABELS_PKL,
                    X_TRAIN_PKL, Y_TRAIN_PKL, X_TEST_PKL, Y_TEST_PKL,
                    Y_PRED_PKL, Y_PROBA_PKL}

FileNames == InputFiles \cup CheckpointFiles

NoFile == [exists |-> FALSE, data |-> <<>>]

\* open(name, 'wb') + pickle.dump(obj), or DataFrame.to_csv(name)
WriteFile(fs, name, obj) == [fs EXCEPT ![name] = [exists |-> TRUE, data |-> obj]]

-----------------------------------------------------------------------------
(* Stage 1: Join & Filter *)

MovieIds == {"tt01", "tt02"}

\* release_date strings of the movie file: two well-formed dates, a date of
\* 9 characters, one of 11 characters, and 10 characters that are no date
ReleaseDates == {"2020-01-01", "2020-01-11", "2020-1-01", "2020-01-011", "not-a-date"}

\* pd.to_datetime on one string: the strings it can parse ...
CanParse(s) == s \in {"2020-01-01", "2020-01-11", "2020-1-01",
                      "3 January 2020", "13 January 2020", "25 December 2019"}

\* ... and the Timestamp it gives, written as pandas prints it
ParseDate(s) ==
    CASE s = "2020-01-01" -> "Timestamp('2020-01-01 00:00:00')"
      [] s = "2020-1-01" -> "Timestamp('2020-01-01 00:00:00')"
      [] s = "2020-01-11" -> "Timestamp('2020-01-11 00:00:00')"
      [] s = "3 January 2020" -> "Timestamp('2020-01-03 00:00:00')"
      [] s = "13 January 2020" -> "Timestamp('2020-01-13 00:00:00')"
      [] s = "25 December 2019" -> "Timestamp('2019-12-25 00:00:00')"

\* the day number of a Timestamp (days since 1970-01-01): the difference of
\* two Timestamps has .dt.days equal to the difference of their day numbers
DayNumber(ts) ==
    CASE ts = "Timestamp('2020-01-01 00:00:00')" -> 18262
      [] ts = "Timestamp('2020-01-11 00:00:00')" -> 18272
      [] ts = "Timestamp('2020-01-03 00:00:00')" -> 18264
      [] ts = "Timestamp('2020-01-13 00:00:00')" -> 18274
      [] ts = "Timestamp('2019-12-25 00:00:00')" -> 18255

\* a missing text field (JSON null) is read as None
None == "<None>"

\* Series.astype(str) on one value
astype_str(v) == IF v = None THEN "None" ELSE v

filter_valid_release_dates_lenient(dataframe) ==
    SelectSeq(dataframe, LAMBDA r : Len(r.release_date) >= 10)

\* mask = (dataframe['release_date'].str.len() == 10); dataframe.loc[mask]
filter_valid_release_dates(dataframe) ==
    SelectSeq(dataframe, LAMBDA r : Len(r.release_date) = 10)

\* pd.to_datetime(column): raises when some value cannot be parsed
ToDatetimeRaises(dataframe, col) ==
    \E i \in 1..Len(dataframe) : ~CanParse(dataframe[i][col])

to_datetime(dataframe, col) ==
    [i \in 1..Len(dataframe) |->
        [dataframe[i] EXCEPT ![col] = ParseDate(dataframe[i][col])]]

\* one row of the merge: the columns of both tables
MergeRow(r, m) ==
    [movie_id |-> r.movie_id, review_date |-> r.review_date,
     review_summary |-> r.review_summary, review_text |-> r.review_text,
     is_spoiler |-> r.is_spoiler, release_date |-> m.release_date]

MergeOneToOne(left, right) ==
    Flatten([i \in 1..Len(left) |->
        LET hits == SelectSeq(right, LAMBDA m : m.movie_id = left[i].movie_id)
        IN  IF hits = <<>> THEN <<>> ELSE <<MergeRow(left[i], hits[1])>>])

\* pd.merge(left, right, on='movie_id'): inner join, one row per pair of a
\* left row and a right row with equal keys, in the order of the left keys
Merge(left, right) ==
    Flatten([i \in 1..Len(left) |->
        LET hits == SelectSeq(right, LAMBDA m : m.movie_id = left[i].movie_id)
        IN  [j \in 1..Len(hits) |-> MergeRow(left[i], hits[j])]])

\* the two derived columns and the column selection of cell 8
SubsetRow(row) ==
    [days_since_release |-> DayNumber(row.review_date) - DayNumber(row.release_date),
     review_combined |-> astype_str(row.review_summary) \o " " \o astype_str(row.review_text),
     is_spoiler |-> row.is_spoiler]

subset_df(merged) == [i \in 1..Len(merged) |-> SubsetRow(merged[i])]


-----------------------------------------------------------------------------
(* The state before the first cell runs *)

\* max_workers = 2
max_workers == 2

Workers == 1..max_workers

NoScaler == [fits |-> 0, data_min |-> <<>>, data_max |-> <<>>]
NoWaiter == [installed |-> FALSE, initial |-> {}, finished |-> <<>>]
NoSplit == [done |-> FALSE, train |-> <<>>, test |-> <<>>,
            X_train |-> <<>>, X_test |-> <<>>, y_train |-> <<>>, y_test |-> <<>>]
NoVectorizer == [fits |-> 0, vocabulary |-> <<>>]
NoCombined == [cols_train |-> <<>>, cols_test |-> <<>>, X_train |-> <<>>, X_test |-> <<>>]
NoStage5 == [loaded |-> FALSE, X_train_vectorized |-> <<>>, y_train |-> <<>>,
             X_test_vectorized |-> <<>>, y_test |-> <<>>,
             fit_X |-> <<>>, fit_y |-> <<>>, y_pred |-> <<>>]

\* a kernel that has run no cell and is about to run the cell at, with the
\* files fs on disk
FreshKernel(at, fs) ==
    /\ pc = at
    /\ err = "none"
    /\ files = fs
    /\ df_reviews = <<>>
    /\ df_movies = <<>>
    /\ merged_df = <<>>
    /\ df = <<>>
    /\ labels = <<>>
    /\ texts = <<>>
    /\ days_since_review = <<>>
    /\ future_results = <<>>
    /\ executor = [idle_semaphore |-> 0, shutdown |-> FALSE]
    /\ work_queue = <<>>
    /\ workers = [w \in Workers |-> [spawned |-> FALSE, task |-> 0, exited |-> FALSE]]
    /\ waiter = NoWaiter
    /\ yielded = <<>>
    /\ processed_texts = <<>>
    /\ scaler = NoScaler
    /\ split = NoSplit
    /\ vectorizer = NoVectorizer
    /\ combined = NoCombined
    /\ stage5 = NoStage5

\* the start of a top-to-bottom run, with the two input files in data/
InitWith(reviews, movies) ==
    FreshKernel("cell6",
                [n \in FileNames |->
                    IF n = REVIEWS_JSON THEN [exists |-> TRUE, data |-> reviews]
                    ELSE IF n = MOVIES_JSON THEN [exists |-> TRUE, data |-> movies]
                    ELSE NoFile])

\* the run ends with exception e
Raise(e) == pc' = "failed" /\ err' = e

-----------------------------------------------------------------------------
(* Cell 6: load both tables, filter the movie table *)

LoadData ==
    /\ pc = "cell6"
    /\ df_reviews' = files[REVIEWS_JSON].data
    /\ df_movies' = filter_valid_release_dates(files[MOVIES_JSON].data)
    /\ pc' = "cell8"
    /\ UNCHANGED <<err, files, merged_df, df, labels, texts, days_since_review,
                   future_results, executor, work_queue, workers, waiter,
                   yielded, processed_texts, scaler, split, vectorizer, combined,
                   stage5>>

(* Cell 8: convert the dates, merge, derive the two columns, write the CSV *)

JoinAndFilter ==
    /\ pc = "cell8"
    /\ IF ToDatetimeRaises(df_reviews, "review_date")
       THEN /\ Raise("ValueError: to_datetime(review_date)")
            /\ UNCHANGED <<df_reviews, df_movies, merged_df, files>>
       ELSE IF ToDatetimeRaises(df_movies, "release_date")
       THEN /\ Raise("ValueError: to_datetime(release_date)")
            /\ df_reviews' = to_datetime(df_reviews, "review_date")
            /\ UNCHANGED <<df_movies, merged_df, files>>
       ELSE LET reviews == to_datetime(df_reviews, "review_date")
                movies == to_datetime(df_movies, "release_date")
                merged == Merge(reviews, movies)
            IN  /\ pc' = "cell10"
                /\ err' = err
                /\ df_reviews' = reviews
                /\ df_movies' = movies
                /\ merged_df' = [i \in 1..Len(merged) |->
                       [movie_id |-> merged[i].movie_id,
                        review_date |-> merged[i].review_date,
                        review_summary |-> merged[i].review_summary,
                        review_text |-> merged[i].review_text,
                        is_spoiler |-> merged[i].is_spoiler,
                        release_date |-> merged[i].release_date,
                        days_since_release |-> SubsetRow(merged[i]).days_since_release,
                        review_combined |-> SubsetRow(merged[i]).review_combined]]
                /\ files' = WriteFile(files, MERGED_CSV, subset_df(merged))
    /\ UNCHANGED <<df, labels, texts, days_since_review, future_results,
                   executor, work_queue, workers, waiter, yielded,
                   processed_texts, scaler, split, vectorizer, combined, stage5>>

-----------------------------------------------------------------------------
(* The join specification: stage 1 over every small pair of input tables *)

JoinReviewRecords ==
    [movie_id : MovieIds \cup {"tt09"}, review_date : {"3 January 2020"},
     review_summary : {"Great"}, review_text : {"Bruce dies!"},
     is_spoiler : {TRUE}]
    \cup
    [movie_id : {"tt01"}, review_date : {"25 December 2019", "someday"},
     review_summary : {None}, review_text : {"Bruce dies!"},
     is_spoiler : {FALSE}]

JoinMovieRecords == [movie_id : MovieIds, release_date : ReleaseDates]

InitJoin ==
    \E reviews \in SeqsUpTo(JoinReviewRecords, MaxJoinReviews),
       movies \in SeqsUpTo(JoinMovieRecords, MaxJoinMovies) :
        InitWith(reviews, movies)

NextJoin == LoadData \/ JoinAndFilter

SpecJoin == InitJoin /\ [][NextJoin]_vars

-----------------------------------------------------------------------------
(* Claims about stage 1 *)

\* the movie table as it was read, before the filter
MoviesRead == files[MOVIES_JSON].data

\* C3: filter_valid_release_dates returns exactly the movie records whose
\* release-date string has 10 characters: after cell 6 every record value
\* occurs in df_movies as often as it occurs in the table that was read when
\* its release date has length 10, whatever the 10 characters are, and not at
\* all when it has any other length; the retained records are unchanged.
C3_FilterKeepsExactlyLength10 ==
    pc = "cell8" =>
        \A m \in Range(MoviesRead) \cup Range(df_movies) :
            Count(df_movies, LAMBDA x : x = m) =
                IF Len(m.release_date) = 10
                THEN Count(MoviesRead, LAMBDA x : x = m)
                ELSE 0

\* the filter has run on a table holding a 9-character date, an 11-character
\* date and 10 characters that are no date, and kept only the last
C3_Witness ==
    /\ pc = "cell8"
    /\ \E i \in 1..Len(MoviesRead) : Len(MoviesRead[i].release_date) # 10
    /\ \E i \in 1..Len(df_movies) : df_movies[i].release_date = "not-a-date"
    /\ Len(df_movies) < Len(MoviesRead)

\* the merged rows that stem from review value r
RowsOf(r) ==
    Count(merged_df, LAMBDA x :
        /\ x.movie_id = r.movie_id
        /\ x.review_date = r.review_date
        /\ x.review_summary = r.review_summary
        /\ x.review_text = r.review_text
        /\ x.is_spoiler = r.is_spoiler)

\* the retained movie records with the movie identifier of review r
MatchesOf(r) == Count(df_movies, LAMBDA m : m.movie_id = r.movie_id)

\* C4 as stated: when cell 8 has completed, every review whose movie
\* identifier matches a retained movie record has exactly one merged row, and
\* every other review has none.
C4_OneRowPerMatchingReview ==
    pc = "cell10" =>
        \A r \in Range(df_reviews) :
            RowsOf(r) = Count(df_reviews, LAMBDA x : x = r)
                            * (IF MatchesOf(r) > 0 THEN 1 ELSE 0)

\* C4 amended: when cell 8 has completed, every review has one merged row per
\* retained movie record with its movie identifier (none when there is no
\* such record), and the merged table has no other row; cell 8 completes
\* exactly when every review date and every retained release date can be
\* parsed, and otherwise raises, writing no merged table and no CSV file.
C4_OneRowPerMatchingPair ==
    /\ pc = "cell10" =>
        /\ \A r \in Range(df_reviews) :
               RowsOf(r) = Count(df_reviews, LAMBDA x : x = r) * MatchesOf(r)
        /\ \A i \in 1..Len(merged_df) :
               \E r \in Range(df_reviews) : merged_df[i].movie_id = r.movie_id
        /\ Len(merged_df) = Len(files[MERGED_CSV].data)
        /\ \A m \in Range(filter_valid_release_dates(MoviesRead)) :
               CanParse(m.release_date)
    /\ (pc = "failed" /\ err \in {"ValueError: to_datetime(review_date)",
                                  "ValueError: to_datetime(release_date)"}) =>
        /\ merged_df = <<>>
        /\ ~files[MERGED_CSV].exists
        /\ \/ \E m \in Range(filter_valid_release_dates(MoviesRead)) :
                  ~CanParse(m.release_date)
           \/ \E r \in Range(files[REVIEWS_JSON].data) : ~CanParse(r.review_date)

\* the join has run with one review matching two retained movie records and
\* giving two merged rows, and one review with no retained movie
C4_Witness ==
    /\ pc = "cell10"
    /\ \E r \in Range(df_reviews) : MatchesOf(r) = 2 /\ RowsOf(r) = 2
    /\ \E r \in Range(df_reviews) : MatchesOf(r) = 0 /\ RowsOf(r) = 0

-----------------------------------------------------------------------------
(* Stage 2: feature extraction *)

\* df = df[:2000] keeps at most this many rows
SampleCap == 2000

\* one token of a spaCy Doc
Tok(text, lemma, pos, ent, stop, punct) ==
    [text |-> text, lemma_ |-> lemma, pos_ |-> pos, ent_type_ |-> ent,
     is_stop |-> stop, is_punct |-> punct]

\* a text the pipeline refuses (longer than nlp.max_length)
TooLong == "Long <a text of more than 1,000,000 characters>"

\* nlp(text) raises
NlpRaises(text) == text = TooLong

\* doc = nlp(text): the parse of the review texts of the model
nlp(text) ==
    CASE text = "Great Bruce dies!" ->
            <<Tok("Great", "great", "ADJ", "", FALSE, FALSE),
              Tok("Bruce", "Bruce", "PROPN", "PERSON", FALSE, FALSE),
              Tok("dies", "die", "VERB", "", FALSE, FALSE),
              Tok("!", "!", "PUNCT", "", FALSE, TRUE)>>
      [] text = "None Bruce dies!" ->
            <<Tok("None", "none", "NOUN", "", TRUE, FALSE),
              Tok("Bruce", "Bruce", "PROPN", "PERSON", FALSE, FALSE),
              Tok("dies", "die", "VERB", "", FALSE, FALSE),
              Tok("!", "!", "PUNCT", "", FALSE, TRUE)>>
      [] text = "Dull film made in Paris by Fox" ->
            <<Tok("Dull", "dull", "ADJ", "", FALSE, FALSE),
              Tok("film", "film", "NOUN", "", FALSE, FALSE),
              Tok("made", "make", "VERB", "", TRUE, FALSE),
              Tok("in", "in", "ADP", "", TRUE, FALSE),
              Tok("Paris", "Paris", "PROPN", "GPE", FALSE, FALSE),
              Tok("by", "by", "ADP", "", TRUE, FALSE),
              Tok("Fox", "Fox", "PROPN", "ORG", FALSE, FALSE)>>
      [] text = "Great film in 2019 : a dull film" ->
            <<Tok("Great", "great", "ADJ", "", FALSE, FALSE),
              Tok("film", "film", "NOUN", "", FALSE, FALSE),
              Tok("in", "in", "ADP", "", TRUE, FALSE),
              Tok("2019", "2019", "NUM", "DATE", FALSE, FALSE),
              Tok(":", ":", "PUNCT", "", FALSE, TRUE),
              Tok("a", "a", "DET", "", TRUE, FALSE),
              Tok("dull", "dull", "ADJ", "", FALSE, FALSE),
              Tok("film", "film", "NOUN", "", FALSE, FALSE)>>

\* doc.count_by(attr).get(value, 0): the tokens of the whole doc with that value
count_by(doc, attr, value) == Count(doc, LAMBDA t : t[attr] = value)

\* [token.lemma_ for token in doc if not token.is_stop and not token.is_punct];
\* ' '.join(...) of it is kept as the sequence of the joined words
processed_text(doc) ==
    LET kept == SelectSeq(doc, LAMBDA t : ~t.is_stop /\ ~t.is_punct)
    IN  [i \in 1..Len(kept) |-> kept[i].lemma_]

\* the nine columns of a feature row, in the order of the list preprocess returns
NumCols == <<"Days", "NOUN_count", "VERB_count", "ADJ_count",
             "PERSON_count", "ORG_count", "GPE_count", "DATE_count">>

FeatureRow(doc, days) ==
    [Days |-> days,
     NOUN_count |-> count_by(doc, "pos_", "NOUN"),
     VERB_count |-> count_by(doc, "pos_", "VERB"),
     ADJ_count |-> count_by(doc, "pos_", "ADJ"),
     PERSON_count |-> count_by(doc, "ent_type_", "PERSON"),
     ORG_count |-> count_by(doc, "ent_type_", "ORG"),
     GPE_count |-> count_by(doc, "ent_type_", "GPE"),
     DATE_count |-> count_by(doc, "ent_type_", "DATE"),
     tokens |-> processed_text(doc)]

\* preprocess, with the days taken from the list by position instead of from
\* the task's own argument
preprocess_days_by_position(text, days) ==
    FeatureRow(nlp(text), days_since_review[Len(processed_texts) + 1])

\* def preprocess(text, days): the feature row of one record
preprocess(text, days) == FeatureRow(nlp(text), days)

\* executor.submit(preprocess, text, days): a pending future holding its arguments
NewFuture(text, days) ==
    [text |-> text, days |-> days, state |-> "PENDING",
     result |-> <<>>, exception |-> "none"]

\* work_item.run(): the future after fn(*args) returned or raised
RunFuture(f) ==
    IF NlpRaises(f.text)
    THEN [f EXCEPT !.state = "FINISHED",
                   !.exception = "ValueError: text exceeds nlp.max_length"]
    ELSE [f EXCEPT !.state = "FINISHED", !.result = <<preprocess(f.text, f.days)>>]

SpawnedWorkers == {w \in Workers : workers[w].spawned}

\* the last n rows at most: dataframe[-n:]
Suffix(dataframe, n) ==
    SubSeq(dataframe,
           IF Len(dataframe) < n THEN 1 ELSE Len(dataframe) - n + 1,
           Len(dataframe))

\* the prefix of at most n rows: dataframe[:n]
Prefix(dataframe, n) ==
    SubSeq(dataframe, 1, IF Len(dataframe) < n THEN Len(dataframe) ELSE n)

(* Cell 10, steps 1 and 2: read the CSV, cap it, extract the three columns *)

ReadCsv ==
    /\ pc = "cell10"
    /\ IF ~files[MERGED_CSV].exists
       THEN /\ Raise("FileNotFoundError: " \o MERGED_CSV)
            /\ UNCHANGED <<df, labels, texts, days_since_review>>
       ELSE LET capped == Prefix(files[MERGED_CSV].data, SampleCap)
            IN  /\ df' = capped
                /\ labels' = [i \in 1..Len(capped) |-> capped[i].is_spoiler]
                /\ texts' = [i \in 1..Len(capped) |-> capped[i].review_combined]
                /\ days_since_review' =
                       [i \in 1..Len(capped) |-> capped[i].days_since_release]
                /\ pc' = "submit"
                /\ err' = err
    /\ UNCHANGED <<files, df_reviews, df_movies, merged_df, future_results,
                   executor, work_queue, workers, waiter, yielded,
                   processed_texts, scaler, split, vectorizer, combined, stage5>>

(* Cell 10, step 4: the worker pool *)

\* a submit that queues the work item and never starts a worker thread
SubmitWithoutStartingThread ==
    /\ pc = "submit"
    /\ Len(future_results) < Len(texts)
    /\ LET i == Len(future_results) + 1
       IN  /\ future_results' =
                  Append(future_results, NewFuture(texts[i], days_since_review[i]))
           /\ work_queue' = Append(work_queue, i)
    /\ UNCHANGED <<pc, err, files, df_reviews, df_movies, merged_df, df, labels,
                   texts, days_since_review, executor, workers, waiter, yielded,
                   processed_texts, scaler, split, vectorizer, combined, stage5>>

\* executor.submit for the next (text, days) pair of the zip: the future is
\* queued, and a thread is started unless a worker is idle or max_workers
\* threads exist
Submit ==
    /\ pc = "submit"
    /\ Len(future_results) < Len(texts)
    /\ LET i == Len(future_results) + 1
       IN  /\ future_results' =
                  Append(future_results, NewFuture(texts[i], days_since_review[i]))
           /\ work_queue' = Append(work_queue, i)
           /\ IF executor.idle_semaphore > 0
              THEN /\ executor' = [executor EXCEPT !.idle_semaphore = @ - 1]
                   /\ workers' = workers
              ELSE /\ executor' = executor
                   /\ IF Cardinality(SpawnedWorkers) < max_workers
                      THEN LET w == CHOOSE v \in Workers \ SpawnedWorkers :
                                        \A u \in Workers \ SpawnedWorkers : v <= u
                           IN  workers' = [workers EXCEPT ![w].spawned = TRUE]
                      ELSE workers' = workers
    /\ UNCHANGED <<pc, err, files, df_reviews, df_movies, merged_df, df, labels,
                   texts, days_since_review, waiter, yielded, processed_texts,
                   scaler, split, vectorizer, combined, stage5>>

\* a worker thread takes the oldest queued work item and starts running it
WorkerTake(w) ==
    /\ workers[w].spawned
    /\ ~workers[w].exited
    /\ workers[w].task = 0
    /\ work_queue # <<>>
    /\ workers' = [workers EXCEPT ![w].task = Head(work_queue)]
    /\ work_queue' = Tail(work_queue)
    /\ future_results' = [future_results EXCEPT ![Head(work_queue)].state = "RUNNING"]
    /\ UNCHANGED <<pc, err, files, df_reviews, df_movies, merged_df, df, labels,
                   texts, days_since_review, executor, waiter, yielded,
                   processed_texts, scaler, split, vectorizer, combined, stage5>>

\* the work item returns or raises: the future is finished, an installed
\* waiter is told, and the worker counts as idle again
WorkerFinish(w) ==
    /\ workers[w].task # 0
    /\ LET i == workers[w].task
       IN  /\ future_results' = [future_results EXCEPT ![i] = RunFuture(@)]
           /\ waiter' = IF waiter.installed
                        THEN [waiter EXCEPT !.finished = Append(@, i)]
                        ELSE waiter
    /\ workers' = [workers EXCEPT ![w].task = 0]
    /\ executor' = [executor EXCEPT !.idle_semaphore = @ + 1]
    /\ UNCHANGED <<pc, err, files, df_reviews, df_movies, merged_df, df, labels,
                   texts, days_since_review, work_queue, yielded,
                   processed_texts, scaler, split, vectorizer, combined, stage5>>

\* after shutdown a worker with nothing left to run ends
WorkerExit(w) ==
    /\ workers[w].spawned
    /\ ~workers[w].exited
    /\ workers[w].task = 0
    /\ work_queue = <<>>
    /\ executor.shutdown
    /\ workers' = [workers EXCEPT ![w].exited = TRUE]
    /\ UNCHANGED <<pc, err, files, df_reviews, df_movies, merged_df, df, labels,
                   texts, days_since_review, future_results, executor,
                   work_queue, waiter, yielded, processed_texts, scaler, split,
                   vectorizer, combined, stage5>>

\* as_completed(future_results) starts: the futures already finished are
\* set aside (as a set), a waiter is installed on the others
AsCompletedStart ==
    /\ pc = "submit"
    /\ Len(future_results) = Len(texts)
    /\ waiter' = [installed |-> TRUE,
                  initial |-> {i \in 1..Len(future_results) :
                                  future_results[i].state = "FINISHED"},
                  finished |-> <<>>]
    /\ pc' = "collect"
    /\ UNCHANGED <<err, files, df_reviews, df_movies, merged_df, df, labels,
                   texts, days_since_review, future_results, executor,
                   work_queue, workers, yielded, processed_texts, scaler,
                   split, vectorizer, combined, stage5>>

\* the loop body with the call of future.result() wrapped so that a task's
\* exception is dropped and the loop goes on to the next future
LoopBodySkippingFailed(i) ==
    /\ yielded' = Append(yielded, i)
    /\ processed_texts' = processed_texts \o future_results[i].result
    /\ err' = err
    /\ pc' = IF Len(yielded) + 1 = Len(future_results) THEN "shutdown" ELSE "collect"

\* the body of the for loop on future i: future.result() returns the row,
\* which is appended, or re-raises the task's exception, which leaves the
\* with block
LoopBody(i) ==
    /\ yielded' = Append(yielded, i)
    /\ IF future_results[i].exception # "none"
       THEN /\ err' = future_results[i].exception
            /\ pc' = "shutdown"
            /\ processed_texts' = processed_texts
       ELSE /\ processed_texts' = processed_texts \o future_results[i].result
            /\ err' = err
            /\ pc' = IF Len(yielded) + 1 = Len(future_results)
                     THEN "shutdown" ELSE "collect"

\* as_completed yields one of the futures that were finished when it
\* started, in the order of a set's iteration
CollectInitial ==
    /\ pc = "collect"
    /\ waiter.initial # {}
    /\ \E i \in waiter.initial :
          /\ waiter' = [waiter EXCEPT !.initial = @ \ {i}]
          /\ LoopBody(i)
    /\ UNCHANGED <<files, df_reviews, df_movies, merged_df, df, labels, texts,
                   days_since_review, future_results, executor, work_queue,
                   workers, scaler, split, vectorizer, combined, stage5>>

\* an as_completed that yields a finished future and keeps it in its list
CollectWaitedWithoutRemoving ==
    /\ pc = "collect"
    /\ waiter.initial = {}
    /\ waiter.finished # <<>>
    /\ waiter' = waiter
    /\ LoopBody(Head(waiter.finished))
    /\ UNCHANGED <<files, df_reviews, df_movies, merged_df, df, labels, texts,
                   days_since_review, future_results, executor, work_queue,
                   workers, scaler, split, vectorizer, combined, stage5>>

\* as_completed yields the futures that finished since, in finishing order
CollectWaited ==
    /\ pc = "collect"
    /\ waiter.initial = {}
    /\ waiter.finished # <<>>
    /\ waiter' = [waiter EXCEPT !.finished = Tail(@)]
    /\ LoopBody(Head(waiter.finished))
    /\ UNCHANGED <<files, df_reviews, df_movies, merged_df, df, labels, texts,
                   days_since_review, future_results, executor, work_queue,
                   workers, scaler, split, vectorizer, combined, stage5>>

\* no task was submitted: the loop body never runs
CollectNothing ==
    /\ pc = "collect"
    /\ future_results = <<>>
    /\ pc' = "shutdown"
    /\ UNCHANGED <<err, files, df_reviews, df_movies, merged_df, df, labels,
                   texts, days_since_review, future_results, executor,
                   work_queue, workers, waiter, yielded, processed_texts,
                   scaler, split, vectorizer, combined, stage5>>

\* leaving the with block: executor.shutdown(wait=True) ...
PoolShutdown ==
    /\ pc = "shutdown"
    /\ executor' = [executor EXCEPT !.shutdown = TRUE]
    /\ pc' = "join"
    /\ UNCHANGED <<err, files, df_reviews, df_movies, merged_df, df, labels,
                   texts, days_since_review, future_results, work_queue,
                   workers, waiter, yielded, processed_texts, scaler, split,
                   vectorizer, combined, stage5>>

\* leaving the with block without joining the worker threads
PoolJoinWithoutWaiting ==
    /\ pc = "join"
    /\ pc' = IF err = "none" THEN "dump" ELSE "failed"
    /\ UNCHANGED <<err, files, df_reviews, df_movies, merged_df, df, labels,
                   texts, days_since_review, future_results, executor,
                   work_queue, workers, waiter, yielded, processed_texts,
                   scaler, split, vectorizer, combined, stage5>>

\* ... which joins every worker thread; then the exception of the loop, if
\* any, ends the run
PoolJoin ==
    /\ pc = "join"
    /\ \A w \in SpawnedWorkers : workers[w].exited
    /\ pc' = IF err = "none" THEN "dump" ELSE "failed"
    /\ UNCHANGED <<err, files, df_reviews, df_movies, merged_df, df, labels,
                   texts, days_since_review, future_results, executor,
                   work_queue, workers, waiter, yielded, processed_texts,
                   scaler, split, vectorizer, combined, stage5>>


-----------------------------------------------------------------------------
(* Stage 3: scaling *)

\* binary64 arithmetic of the scaler.  A finite double is held exactly: a
\* sign and the magnitude as an integer count of 2^-FracBits, written in
\* limbs of LimbBits bits, lowest limb first, without a high zero limb.
\* The counts, day numbers and ranges that reach the scaler stay below one
\* limb, so no count of 2^-FracBits is ever lost.
Precision == 53
LimbBits == 15
FracLimbs == 5
FracBits == FracLimbs * LimbBits

Pow2(k) == <<1, 2, 4, 8, 16, 32, 64, 128, 256, 512, 1024, 2048, 4096, 8192,
             16384, 32768>>[k + 1]

Base == Pow2(LimbBits)

RECURSIVE AddLimbs(_, _, _)
AddLimbs(a, b, carry) ==
    IF a = <<>> /\ b = <<>>
    THEN IF carry = 0 THEN <<>> ELSE <<carry>>
    ELSE LET x == IF a = <<>> THEN 0 ELSE Head(a)
             y == IF b = <<>> THEN 0 ELSE Head(b)
             s == x + y + carry
         IN  <<s % Base>> \o AddLimbs(IF a = <<>> THEN a ELSE Tail(a),
                                      IF b = <<>> THEN b ELSE Tail(b),
                                      s \div Base)

TrimLimbs(a) ==
    LET used == {i \in 1..Len(a) : a[i] # 0}
    IN  IF used = {}
        THEN <<>>
        ELSE SubSeq(a, 1, CHOOSE i \in used : \A j \in used : j <= i)

\* a - b for a >= b, before trimming
RECURSIVE SubLimbs(_, _, _)
SubLimbs(a, b, borrow) ==
    IF a = <<>>
    THEN <<>>
    ELSE LET y == IF b = <<>> THEN 0 ELSE Head(b)
             d == Head(a) - y - borrow
         IN  <<d % Base>> \o SubLimbs(Tail(a), IF b = <<>> THEN b ELSE Tail(b),
                                      IF d < 0 THEN 1 ELSE 0)

LessLimbs(a, b) ==
    \/ Len(a) < Len(b)
    \/ /\ Len(a) = Len(b)
       /\ \E i \in 1..Len(a) :
            /\ a[i] < b[i]
            /\ \A j \in (i + 1)..Len(a) : a[j] = b[j]

\* a * n for 0 <= n < Base
RECURSIVE TimesSmall(_, _, _)
TimesSmall(a, n, carry) ==
    IF a = <<>> \/ n = 0
    THEN IF carry = 0 THEN <<>> ELSE <<carry>>
    ELSE LET p == Head(a) * n + carry
         IN  <<p % Base>> \o TimesSmall(Tail(a), n, p \div Base)

\* quotient and remainder of a by r, 0 < r < Base, from limb i downwards
RECURSIVE DivSmall(_, _, _, _)
DivSmall(a, r, i, rem) ==
    IF i = 0
    THEN [q |-> <<>>, rem |-> rem]
    ELSE LET cur == rem * Base + a[i]
             low == DivSmall(a, r, i - 1, cur % r)
         IN  [q |-> low.q \o <<cur \div r>>, rem |-> low.rem]

Pow2Limbs(k) ==
    [i \in 1..(k \div LimbBits + 1) |->
        IF i = k \div LimbBits + 1 THEN Pow2(k % LimbBits) ELSE 0]

BitLength(a) ==
    IF a = <<>>
    THEN 0
    ELSE LimbBits * (Len(a) - 1)
         + CHOOSE k \in 1..LimbBits : Pow2(k - 1) <= a[Len(a)] /\ a[Len(a)] < Pow2(k)

BitAt(a, k) == (a[k \div LimbBits + 1] \div Pow2(k % LimbBits)) % 2

\* a without its k lowest bits
Truncated(a, k) ==
    [i \in 1..Len(a) |->
        IF i <= k \div LimbBits
        THEN 0
        ELSE IF i = k \div LimbBits + 1
             THEN a[i] - (a[i] % Pow2(k % LimbBits))
             ELSE a[i]]

\* round to nearest, ties to even, at Precision significant bits; inexact
\* says that a nonzero part below the last bit of a was already dropped
RoundNearestEven(a, inexact) ==
    LET d == BitLength(a) - Precision
    IN  IF d <= 0
        THEN a
        ELSE LET kept == Truncated(a, d)
                 half == BitAt(a, d - 1) = 1
                 rest == inexact \/ Truncated(a, d - 1) # a
                 up == half /\ (rest \/ BitAt(a, d) = 1)
             IN  IF up THEN AddLimbs(kept, Pow2Limbs(d), 0) ELSE kept

Signed(neg, mag) == [neg |-> neg /\ mag # <<>>, mag |-> mag]

Zero == Signed(FALSE, <<>>)

One == Signed(FALSE, Pow2Limbs(FracBits))

\* 1.0 / r for an integer 0 < r < Base
Reciprocal(r) ==
    LET one == Pow2Limbs(FracBits)
        p == DivSmall(one, r, Len(one), 0)
    IN  Signed(FALSE, RoundNearestEven(TrimLimbs(p.q), p.rem # 0))

\* x * s for an integer x, -Base < x < Base
Product(x, s) ==
    Signed((x < 0) # s.neg,
           RoundNearestEven(TimesSmall(s.mag, IF x < 0 THEN 0 - x ELSE x, 0), FALSE))

Negated(a) == Signed(~a.neg, a.mag)

\* a + b
Sum(a, b) ==
    IF a.neg = b.neg
    THEN Signed(a.neg, RoundNearestEven(AddLimbs(a.mag, b.mag, 0), FALSE))
    ELSE IF LessLimbs(a.mag, b.mag)
         THEN Signed(b.neg, RoundNearestEven(TrimLimbs(SubLimbs(b.mag, a.mag, 0)), FALSE))
         ELSE Signed(a.neg, RoundNearestEven(TrimLimbs(SubLimbs(a.mag, b.mag, 0)), FALSE))

\* an integer held in a float64 column
FromInt(n) == Product(n, One)

\* the smallest and the largest value of column c of a non-empty table
ColMin(table, c) ==
    CHOOSE v \in {table[i][c] : i \in 1..Len(table)} :
        \A i \in 1..Len(table) : v <= table[i][c]

ColMax(table, c) ==
    CHOOSE v \in {table[i][c] : i \in 1..Len(table)} :
        \A i \in 1..Len(table) : v >= table[i][c]

\* X * scale_ + min_ in doubles, where scale_ = 1.0 / data_range and
\* min_ = 0 - data_min * scale_
ScaleWith(x, data_min, data_range) ==
    LET scale_ == Reciprocal(data_range)
        min_ == Sum(Zero, Negated(Product(data_min, scale_)))
    IN  Sum(Product(x, scale_), min_)

\* what 0.0 * inf and inf - inf give
NaN == [neg |-> TRUE, mag |-> <<>>]

\* the scaler's transform without the guard for a zero range
ScaleValueUnguarded(x, data_min, data_max) ==
    IF data_max - data_min = 0
    THEN NaN
    ELSE ScaleWith(x, data_min, data_max - data_min)

\* the scaler's transform dividing by the maximum instead of the range
ScaleValueByMax(x, data_min, data_max) ==
    ScaleWith(x, data_min, IF data_max <= 0 THEN 1 ELSE data_max)

\* MinMaxScaler.transform on one value: a data_range of 0 is replaced by 1
\* before scale_ is computed
ScaleValue(x, data_min, data_max) ==
    ScaleWith(x, data_min,
              IF data_max - data_min = 0 THEN 1 ELSE data_max - data_min)

\* a fit that leaves the last row out of the minimum and maximum
FitOnAllButLast(table) ==
    LET seen == IF Len(table) > 1 THEN SubSeq(table, 1, Len(table) - 1) ELSE table
    IN  [fits |-> scaler.fits + 1,
         data_min |-> [k \in 1..Len(NumCols) |-> ColMin(seen, NumCols[k])],
         data_max |-> [k \in 1..Len(NumCols) |-> ColMax(seen, NumCols[k])]]

\* MinMaxScaler.fit on the eight numeric columns of the table
Fit(table) ==
    [fits |-> scaler.fits + 1,
     data_min |-> [k \in 1..Len(NumCols) |-> ColMin(table, NumCols[k])],
     data_max |-> [k \in 1..Len(NumCols) |-> ColMax(table, NumCols[k])]]

\* the scaled table rebuilt from the scaled array alone: the tokens are lost
TransformDroppingTokens(sc, table) ==
    [i \in 1..Len(table) |->
        [c \in DOMAIN table[i] |->
            IF c = "tokens" THEN <<>>
            ELSE ScaleValue(table[i][c],
                            sc.data_min[CHOOSE k \in 1..Len(NumCols) : NumCols[k] = c],
                            sc.data_max[CHOOSE k \in 1..Len(NumCols) : NumCols[k] = c])]]

\* MinMaxScaler.transform, written back into the eight columns of the table
Transform(sc, table) ==
    [i \in 1..Len(table) |->
        [Days |-> ScaleValue(table[i].Days, sc.data_min[1], sc.data_max[1]),
         NOUN_count |-> ScaleValue(table[i].NOUN_count, sc.data_min[2], sc.data_max[2]),
         VERB_count |-> ScaleValue(table[i].VERB_count, sc.data_min[3], sc.data_max[3]),
         ADJ_count |-> ScaleValue(table[i].ADJ_count, sc.data_min[4], sc.data_max[4]),
         PERSON_count |-> ScaleValue(table[i].PERSON_count, sc.data_min[5], sc.data_max[5]),
         ORG_count |-> ScaleValue(table[i].ORG_count, sc.data_min[6], sc.data_max[6]),
         GPE_count |-> ScaleValue(table[i].GPE_count, sc.data_min[7], sc.data_max[7]),
         DATE_count |-> ScaleValue(table[i].DATE_count, sc.data_min[8], sc.data_max[8]),
         tokens |-> table[i].tokens]]

(* Cell 10, step 4.5: pickle the collected rows *)

DumpBeforeScaling ==
    /\ pc = "dump"
    /\ files' = WriteFile(files, BEFORE_SCALING_PKL, processed_texts)
    /\ pc' = "scale"
    /\ UNCHANGED <<err, df_reviews, df_movies, merged_df, df, labels, texts,
                   days_since_review, future_results, executor, work_queue,
                   workers, waiter, yielded, processed_texts, scaler, split,
                   vectorizer, combined, stage5>>

(* Cell 10: the feature table, and the scaler fitted on all of its rows *)

Scale ==
    /\ pc = "scale"
    /\ IF processed_texts = <<>>
       THEN /\ df' = processed_texts
            /\ Raise("ValueError: Found array with 0 sample(s)")
            /\ scaler' = scaler
       ELSE LET fitted == Fit(processed_texts)
            IN  /\ scaler' = fitted
                /\ df' = Transform(fitted, processed_texts)
                /\ pc' = "dump_scaled"
                /\ err' = err
    /\ UNCHANGED <<files, df_reviews, df_movies, merged_df, labels, texts,
                   days_since_review, future_results, executor, work_queue,
                   workers, waiter, yielded, processed_texts, split,
                   vectorizer, combined, stage5>>

(* Cell 10, step 5: pickle the scaled table and the labels *)

DumpScaled ==
    /\ pc = "dump_scaled"
    /\ files' = WriteFile(WriteFile(files, PROCESSED_PKL, df), LABELS_PKL, labels)
    /\ pc' = "cell11"
    /\ UNCHANGED <<err, df_reviews, df_movies, merged_df, df, labels, texts,
                   days_since_review, future_results, executor, work_queue,
                   workers, waiter, yielded, processed_texts, scaler, split,
                   vectorizer, combined, stage5>>

-----------------------------------------------------------------------------
(* Stage 4: split and vectorization *)

(* Cell 11: read the scaled table and the labels back *)

LoadScaled ==
    /\ pc = "cell11"
    /\ IF ~files[PROCESSED_PKL].exists
       THEN /\ Raise("FileNotFoundError: " \o PROCESSED_PKL)
            /\ UNCHANGED <<processed_texts, labels>>
       ELSE IF ~files[LABELS_PKL].exists
       THEN /\ Raise("FileNotFoundError: " \o LABELS_PKL)
            /\ processed_texts' = files[PROCESSED_PKL].data
            /\ UNCHANGED labels
       ELSE /\ pc' = "cell13"
            /\ err' = err
            /\ processed_texts' = files[PROCESSED_PKL].data
            /\ labels' = files[LABELS_PKL].data
    /\ UNCHANGED <<files, df_reviews, df_movies, merged_df, df, texts,
                   days_since_review, future_results, executor, work_queue,
                   workers, waiter, yielded, scaler, split, vectorizer,
                   combined, stage5>>

\* test_size = 0.2: ceil(test_size * n_samples), and the rest for training
test_size_num == 2
test_size_den == 10

NTest(n) == (test_size_num * n + test_size_den - 1) \div test_size_den

NTrain(n) == n - NTest(n)

\* np.unique(y): the classes present, and the rows of each
Classes(y) == Range(y)

ClassIndices(y, c) == {i \in 1..Len(y) : y[i] = c}

RECURSIVE SumOver(_, _)
\* the sum of f over the set S
SumOver(f, S) ==
    IF S = {} THEN 0
    ELSE LET c == CHOOSE x \in S : TRUE IN f[c] + SumOver(f, S \ {c})

\* an allocation that gives every class its floor only
ApproximateModeFloor(class_counts, n_draws) ==
    LET C == DOMAIN class_counts
        total == SumOver(class_counts, C)
    IN  {[c \in C |-> (class_counts[c] * n_draws) \div total]}

\* _approximate_mode(class_counts, n_draws, rng): every class gets the floor
\* of its proportional share, and the draws left over go to the classes with
\* the largest remainders, ties broken by the random generator
ApproximateMode(class_counts, n_draws) ==
    LET C == DOMAIN class_counts
        total == SumOver(class_counts, C)
        floored == [c \in C |-> (class_counts[c] * n_draws) \div total]
        remainder == [c \in C |-> (class_counts[c] * n_draws) % total]
        need_to_add == n_draws - SumOver(floored, C)
    IN  {[c \in C |-> floored[c] + (IF c \in S THEN 1 ELSE 0)] :
            S \in {T \in SUBSET C :
                     /\ Cardinality(T) = need_to_add
                     /\ \A c \in T, d \in C \ T : remainder[c] >= remainder[d]}}

RECURSIVE Combinations(_, _)
\* the ways to keep k elements of the sequence s, in the order of s
Combinations(s, k) ==
    IF k = 0 THEN {<<>>}
    ELSE IF Len(s) < k THEN {}
    ELSE {<<Head(s)>> \o c : c \in Combinations(Tail(s), k - 1)}
             \cup Combinations(Tail(s), k)

RECURSIVE SortedSeq(_)
\* the elements of a set of numbers in ascending order
SortedSeq(S) ==
    IF S = {} THEN <<>>
    ELSE LET m == CHOOSE x \in S : \A y \in S : x <= y
         IN  <<m>> \o SortedSeq(S \ {m})

\* a split that accepts a test partition smaller than the number of classes
SplitErrorIgnoringTestSize(X, y) ==
    LET n == Len(X)
        C == Classes(y)
    IN  IF Len(X) # Len(y)
        THEN "ValueError: inconsistent numbers of samples"
        ELSE IF NTrain(n) = 0
        THEN "ValueError: the resulting train set will be empty"
        ELSE IF \E c \in C : Cardinality(ClassIndices(y, c)) < 2
        THEN "ValueError: The least populated class in y has only 1 member"
        ELSE "none"

\* the exception train_test_split raises on (X, y), or "none"
SplitError(X, y) ==
    LET n == Len(X)
        C == Classes(y)
    IN  IF Len(X) # Len(y)
        THEN "ValueError: inconsistent numbers of samples"
        ELSE IF NTrain(n) = 0
        THEN "ValueError: the resulting train set will be empty"
        ELSE IF \E c \in C : Cardinality(ClassIndices(y, c)) < 2
        THEN "ValueError: The least populated class in y has only 1 member"
        ELSE IF NTrain(n) < Cardinality(C)
        THEN "ValueError: The train_size should be greater or equal to the number of classes"
        ELSE IF NTest(n) < Cardinality(C)
        THEN "ValueError: The test_size should be greater or equal to the number of classes"
        ELSE "none"

\* X[indices]: the rows at the given positions
Take(X, indices) == [k \in 1..Len(indices) |-> X[indices[k]]]

\* the share of class c in an allocation (0 for a class that is absent)
Share(alloc, c) == IF c \in DOMAIN alloc THEN alloc[c] ELSE 0

\* the rows of class c, in ascending order
ClassRows(y, c) == SelectSeq([i \in 1..Len(y) |-> i], LAMBDA i : y[i] = c)

\* perm_indices_class_i[:n_i] and perm_indices_class_i[n_i : n_i + t_i] for a
\* random permutation of the rows of class c: n_i of them, and t_i others
ClassSplits(y, c, n_i, t_i) ==
    UNION {{<<tr, te>> :
               te \in Combinations(SelectSeq(ClassRows(y, c),
                                             LAMBDA r : \A k \in 1..Len(tr) : tr[k] # r),
                                   Share(t_i, c))} :
              tr \in Combinations(ClassRows(y, c), Share(n_i, c))}

\* the (train, test) index arrays StratifiedShuffleSplit can yield on y; the
\* order the final permutation gives each array is left out, and each array
\* is kept in ascending row order
SplitChoices(y) ==
    LET C == Classes(y)
        n == Len(y)
        class_counts == [c \in C |-> Cardinality(ClassIndices(y, c))]
    IN  UNION {UNION {
            {[train |-> SelectSeq([i \in 1..n |-> i],
                                  LAMBDA i : i \in Range(pF[1]) \cup Range(pT[1])),
              test |-> SelectSeq([i \in 1..n |-> i],
                                 LAMBDA i : i \in Range(pF[2]) \cup Range(pT[2]))] :
                pF \in ClassSplits(y, FALSE, n_i, t_i),
                pT \in ClassSplits(y, TRUE, n_i, t_i)} :
            t_i \in ApproximateMode([c \in C |-> class_counts[c] - n_i[c]], NTest(n))} :
            n_i \in ApproximateMode(class_counts, NTrain(n))}


(* Cell 13: the stratified 80/20 split of the loaded table and labels *)

Split ==
    /\ pc = "cell13"
    /\ IF SplitError(processed_texts, labels) # "none"
       THEN /\ Raise(SplitError(processed_texts, labels))
            /\ split' = split
       ELSE \E s \in SplitChoices(labels) :
                /\ split' = [done |-> TRUE, train |-> s.train, test |-> s.test,
                             X_train |-> Take(processed_texts, s.train),
                             X_test |-> Take(processed_texts, s.test),
                             y_train |-> Take(labels, s.train),
                             y_test |-> Take(labels, s.test)]
                /\ pc' = "cell15"
                /\ err' = err
    /\ UNCHANGED <<files, df_reviews, df_movies, merged_df, df, labels, texts,
                   days_since_review, future_results, executor, work_queue,
                   workers, waiter, yielded, processed_texts, scaler,
                   vectorizer, combined, stage5>>

\* TfidfVectorizer(ngram_range=(1, 3), max_df=0.9, max_features=100000)
ngram_min == 1
ngram_max == 3
max_df_num == 9
max_df_den == 10
min_df == 1
max_features == 100000

\* str.lower() on the words of the model
Lower(w) ==
    CASE w = "Bruce" -> "bruce"
      [] w = "Paris" -> "paris"
      [] w = "Fox" -> "fox"
      [] OTHER -> w

\* the position of a lower-case word in the order of Python's string comparison
WordRank(w) ==
    CASE w = "2019" -> 1
      [] w = "bruce" -> 2
      [] w = "die" -> 3
      [] w = "dull" -> 4
      [] w = "film" -> 5
      [] w = "fox" -> 6
      [] w = "great" -> 7
      [] w = "paris" -> 8

\* the default analyzer on a token string: lower-case it and keep the words
\* of two or more characters
Analyze(tokens) ==
    LET lowered == [i \in 1..Len(tokens) |-> Lower(tokens[i])]
    IN  SelectSeq(lowered, LAMBDA w : Len(w) >= 2)

\* the positions at which an n-gram of n words starts
NGramStarts(words, n) == 1..(Len(words) - n + 1)

\* the n-grams of a document, ngram_min to ngram_max words long
NGrams(words) ==
    UNION {{SubSeq(words, i, i + n - 1) : i \in NGramStarts(words, n)} :
              n \in ngram_min..ngram_max}

\* how often a term occurs in a document
TermCount(words, term) ==
    Cardinality({i \in NGramStarts(words, Len(term)) :
                    SubSeq(words, i, i + Len(term) - 1) = term})

\* in how many documents a term occurs
DocFreq(docs, term) == Count(docs, LAMBDA d : TermCount(Analyze(d), term) > 0)

RECURSIVE TermLess(_, _)
\* the order of the feature names: the terms joined by spaces, compared as strings
TermLess(a, b) ==
    IF a = <<>> THEN b # <<>>
    ELSE IF b = <<>> THEN FALSE
    ELSE IF Head(a) = Head(b) THEN TermLess(Tail(a), Tail(b))
    ELSE WordRank(Head(a)) < WordRank(Head(b))

RECURSIVE SortTerms(_)
\* a set of terms as the sorted list of feature names
SortTerms(S) ==
    IF S = {} THEN <<>>
    ELSE LET m == CHOOSE x \in S : \A y \in S \ {x} : TermLess(x, y)
         IN  <<m>> \o SortTerms(S \ {m})

\* every n-gram of the documents
AllTerms(docs) == UNION {NGrams(Analyze(docs[i])) : i \in 1..Len(docs)}

\* _limit_features: the terms within min_df and max_df, and of those the
\* max_features with the largest total count when there are more
LimitFeatures(docs) ==
    LET kept == {t \in AllTerms(docs) :
                    /\ DocFreq(docs, t) >= min_df
                    /\ max_df_den * DocFreq(docs, t) <= max_df_num * Len(docs)}
        tfs == [t \in kept |->
                   SumOver([i \in 1..Len(docs) |-> TermCount(Analyze(docs[i]), t)],
                           1..Len(docs))]
    IN  IF Cardinality(kept) <= max_features THEN kept
        ELSE CHOOSE top \in SUBSET kept :
                 /\ Cardinality(top) = max_features
                 /\ \A t \in top, u \in kept \ top : tfs[t] >= tfs[u]

\* the exception fit_transform raises on the documents, or "none"
VectorizerError(docs) ==
    IF AllTerms(docs) = {}
    THEN "ValueError: empty vocabulary"
    ELSE IF max_df_num * Len(docs) < min_df * max_df_den
    THEN "ValueError: max_df corresponds to < documents than min_df"
    ELSE IF LimitFeatures(docs) = {}
    THEN "ValueError: After pruning, no terms remain"
    ELSE "none"

\* the vocabulary fit_transform learns from the documents, in column order
FitVocabulary(docs) == SortTerms(LimitFeatures(docs))

\* the n-gram block of the documents under a vocabulary: one weight per
\* vocabulary term, kept as the term's count in the document
TransformDocs(vocabulary, docs) ==
    [i \in 1..Len(docs) |->
        [k \in 1..Len(vocabulary) |->
            FromInt(TermCount(Analyze(docs[i]), vocabulary[k]))]]

\* a transform that fits the vocabulary again on the documents it is given
RefitTransform(vocabulary, docs) ==
    [vocabulary |-> FitVocabulary(docs),
     X |-> TransformDocs(FitVocabulary(docs), docs)]

\* vectorizer.transform(docs): the vocabulary stays as fitted
TransformOnly(vocabulary, docs) ==
    [vocabulary |-> vocabulary, X |-> TransformDocs(vocabulary, docs)]

\* table['tokens']
TokensOf(table) == [i \in 1..Len(table) |-> table[i].tokens]

\* table[[the eight numeric columns]].to_numpy()
AdditionalFeatures(table) ==
    [i \in 1..Len(table) |-> [k \in 1..Len(NumCols) |-> table[i][NumCols[k]]]]

\* hstack((block, additional)): row by row, the n-gram block then the numeric block
hstack(block, additional) ==
    [i \in 1..Len(block) |-> block[i] \o additional[i]]

\* what each column of a combined matrix holds
ColumnsOf(vocabulary) == vocabulary \o [k \in 1..Len(NumCols) |-> <<NumCols[k]>>]

(* Cell 15, step 7: fit on the training tokens, transform both partitions, hstack *)

Vectorize ==
    /\ pc = "cell15"
    /\ IF VectorizerError(TokensOf(split.X_train)) # "none"
       THEN /\ Raise(VectorizerError(TokensOf(split.X_train)))
            /\ UNCHANGED <<vectorizer, combined>>
       ELSE LET fitted == FitVocabulary(TokensOf(split.X_train))
                train == TransformDocs(fitted, TokensOf(split.X_train))
                test == TransformOnly(fitted, TokensOf(split.X_test))
            IN  /\ vectorizer' = [fits |-> vectorizer.fits + 1,
                                  vocabulary |-> test.vocabulary]
                /\ combined' =
                       [cols_train |-> ColumnsOf(fitted),
                        cols_test |-> ColumnsOf(test.vocabulary),
                        X_train |-> hstack(train, AdditionalFeatures(split.X_train)),
                        X_test |-> hstack(test.X, AdditionalFeatures(split.X_test))]
                /\ pc' = "dump_vectorized"
                /\ err' = err
    /\ UNCHANGED <<files, df_reviews, df_movies, merged_df, df, labels, texts,
                   days_since_review, future_results, executor, work_queue,
                   workers, waiter, yielded, processed_texts, scaler, split,
                   stage5>>

(* Cell 15, step 7.1: pickle the two matrices and the two label lists *)

DumpVectorized ==
    /\ pc = "dump_vectorized"
    /\ files' = WriteFile(WriteFile(WriteFile(WriteFile(files,
                    X_TRAIN_PKL, combined.X_train),
                    Y_TRAIN_PKL, split.y_train),
                    X_TEST_PKL, combined.X_test),
                    Y_TEST_PKL, split.y_test)
    /\ pc' = "cell17"
    /\ UNCHANGED <<err, df_reviews, df_movies, merged_df, df, labels, texts,
                   days_since_review, future_results, executor, work_queue,
                   workers, waiter, yielded, processed_texts, scaler, split,
                   vectorizer, combined, stage5>>

-----------------------------------------------------------------------------
(* Stage 5: training and evaluation *)

\* the first of the four checkpoint files that is missing, or "none"
MissingVectorized ==
    IF ~files[X_TRAIN_PKL].exists THEN X_TRAIN_PKL
    ELSE IF ~files[Y_TRAIN_PKL].exists THEN Y_TRAIN_PKL
    ELSE IF ~files[X_TEST_PKL].exists THEN X_TEST_PKL
    ELSE IF ~files[Y_TEST_PKL].exists THEN Y_TEST_PKL
    ELSE "none"

\* the loads of cell 17 with the file names of the two matrices exchanged
LoadedFromSwappedFiles ==
    [stage5 EXCEPT !.loaded = TRUE,
                   !.X_train_vectorized = files[X_TEST_PKL].data,
                   !.y_train = files[Y_TRAIN_PKL].data,
                   !.X_test_vectorized = files[X_TRAIN_PKL].data,
                   !.y_test = files[Y_TEST_PKL].data]

\* pickle.load of the four files of step 7.1
LoadedFromFiles ==
    [stage5 EXCEPT !.loaded = TRUE,
                   !.X_train_vectorized = files[X_TRAIN_PKL].data,
                   !.y_train = files[Y_TRAIN_PKL].data,
                   !.X_test_vectorized = files[X_TEST_PKL].data,
                   !.y_test = files[Y_TEST_PKL].data]

(* Cell 17, step 7.9: read the four files back *)

LoadVectorized ==
    /\ pc = "cell17"
    /\ IF MissingVectorized # "none"
       THEN /\ Raise("FileNotFoundError: " \o MissingVectorized)
            /\ stage5' = stage5
       ELSE /\ stage5' = LoadedFromFiles
            /\ pc' = "fit"
            /\ err' = err
    /\ UNCHANGED <<files, df_reviews, df_movies, merged_df, df, labels, texts,
                   days_since_review, future_results, executor, work_queue,
                   workers, waiter, yielded, processed_texts, scaler, split,
                   vectorizer, combined>>

(* Cell 17, step 8: classifier.fit on the loaded training data, predict on
   the loaded test matrix; a prediction is one of the classes seen in fit *)

FitPredict ==
    /\ pc = "fit"
    /\ \E y_pred \in [1..Len(stage5.X_test_vectorized) -> Range(stage5.y_train)] :
          stage5' = [stage5 EXCEPT !.fit_X = stage5.X_train_vectorized,
                                   !.fit_y = stage5.y_train,
                                   !.y_pred = y_pred]
    /\ pc' = "dump_pred"
    /\ UNCHANGED <<err, files, df_reviews, df_movies, merged_df, df, labels,
                   texts, days_since_review, future_results, executor,
                   work_queue, workers, waiter, yielded, processed_texts,
                   scaler, split, vectorizer, combined>>

(* Cell 17, step 11: pickle the predictions and the class probabilities *)

DumpPredictions ==
    /\ pc = "dump_pred"
    /\ files' = WriteFile(WriteFile(files, Y_PRED_PKL, stage5.y_pred),
                          Y_PROBA_PKL,
                          [i \in 1..Len(stage5.X_test_vectorized) |->
                              SortedSeq({IF c THEN 1 ELSE 0 : c \in Range(stage5.fit_y)})])
    /\ pc' = "done"
    /\ UNCHANGED <<err, df_reviews, df_movies, merged_df, df, labels, texts,
                   days_since_review, future_results, executor, work_queue,
                   workers, waiter, yielded, processed_texts, scaler, split,
                   vectorizer, combined, stage5>>

-----------------------------------------------------------------------------
(* The whole notebook, run top to bottom *)

\* longest reviews table explored by the run specification
MaxReviews == 3

RunReviewRecords ==
    {[movie_id |-> "tt01", review_date |-> "3 January 2020",
      review_summary |-> "Great", review_text |-> "Bruce dies!",
      is_spoiler |-> TRUE],
     [movie_id |-> "tt01", review_date |-> "25 December 2019",
      review_summary |-> "Dull", review_text |-> "film made in Paris by Fox",
      is_spoiler |-> FALSE],
     [movie_id |-> "tt01", review_date |-> "13 January 2020",
      review_summary |-> "Great", review_text |-> "film in 2019 : a dull film",
      is_spoiler |-> TRUE]}

RunMovies == <<[movie_id |-> "tt01", release_date |-> "2020-01-01"]>>

Init ==
    \E reviews \in SeqsUpTo(RunReviewRecords, MaxReviews) :
        InitWith(reviews, RunMovies)

Next ==
    \/ LoadData
    \/ JoinAndFilter
    \/ ReadCsv
    \/ Submit
    \/ \E w \in Workers : WorkerTake(w)
    \/ \E w \in Workers : WorkerFinish(w)
    \/ \E w \in Workers : WorkerExit(w)
    \/ AsCompletedStart
    \/ CollectInitial
    \/ CollectWaited
    \/ CollectNothing
    \/ PoolShutdown
    \/ PoolJoin
    \/ DumpBeforeScaling
    \/ Scale
    \/ DumpScaled
    \/ LoadScaled
    \/ Split
    \/ Vectorize
    \/ DumpVectorized
    \/ LoadVectorized
    \/ FitPredict
    \/ DumpPredictions

Spec == Init /\ [][Next]_vars

-----------------------------------------------------------------------------
(* The split specification: cells 11 and 13 in a fresh kernel, on the two
   checkpoint files of step 5 that an earlier run of cells 6 to 10 wrote for
   a table with both labels *)

\* most rows in the checkpointed table
MaxSplitRows == 21

\* most rows of it that are not spoilers
MaxNotSpoiler == 2

\* review i of a reviews file whose first t reviews are the spoilers: the
\* reviews differ in their dates
SplitReviewAt(i, t) ==
    [movie_id |-> "tt01",
     review_date |-> CASE i % 3 = 1 -> "3 January 2020"
                       [] i % 3 = 2 -> "25 December 2019"
                       [] OTHER -> "13 January 2020",
     review_summary |-> "Great",
     review_text |-> "Bruce dies!",
     is_spoiler |-> i <= t]

\* processed.pkl and labels.pkl as cells 6 to 10 write them for the reviews
\* when every task completes in the order of submission
CheckpointsOf(reviews) ==
    LET merged == Merge(to_datetime(reviews, "review_date"),
                        to_datetime(filter_valid_release_dates(RunMovies),
                                    "release_date"))
        csv == subset_df(merged)
        raw == [i \in 1..Len(csv) |->
                   FeatureRow(nlp(csv[i].review_combined), csv[i].days_since_release)]
        fitted == [fits |-> 1,
                   data_min |-> [k \in 1..Len(NumCols) |-> ColMin(raw, NumCols[k])],
                   data_max |-> [k \in 1..Len(NumCols) |-> ColMax(raw, NumCols[k])]]
    IN  [n \in FileNames |->
            IF n = PROCESSED_PKL
            THEN [exists |-> TRUE, data |-> Transform(fitted, raw)]
            ELSE IF n = LABELS_PKL
            THEN [exists |-> TRUE, data |-> [i \in 1..Len(csv) |-> csv[i].is_spoiler]]
            ELSE NoFile]

InitSplit ==
    \E n \in 1..MaxSplitRows :
        \E t \in 0..(n - 1) :
            /\ n - t <= MaxNotSpoiler
            /\ FreshKernel("cell11",
                           CheckpointsOf([i \in 1..n |-> SplitReviewAt(i, t)]))

NextSplit == LoadScaled \/ Split

SpecSplit == InitSplit /\ [][NextSplit]_vars

-----------------------------------------------------------------------------
(* The extraction specification: the whole notebook on reviews of which some
   have a text that nlp refuses *)

\* longest reviews table explored by the extraction specification
MaxExtractReviews == 3

\* a review whose combined text is TooLong
LongReview ==
    [movie_id |-> "tt01", review_date |-> "3 January 2020",
     review_summary |-> "Long",
     review_text |-> "<a text of more than 1,000,000 characters>",
     is_spoiler |-> TRUE]

ExtractReviewRecords ==
    {r \in RunReviewRecords : r.is_spoiler} \cup {LongReview}

InitExtract ==
    \E reviews \in SeqsUpTo(ExtractReviewRecords, MaxExtractReviews) :
        InitWith(reviews, RunMovies)

SpecExtract == InitExtract /\ [][Next]_vars

-----------------------------------------------------------------------------
(* The pool specification: the notebook up to the checkpoint of the
   extracted rows, on the same reviews, with the scheduling the interpreter
   gives: the main thread and each worker thread that can take a step
   eventually takes one *)

\* the steps of the thread that runs the cells, up to that checkpoint
MainThread ==
    \/ LoadData
    \/ JoinAndFilter
    \/ ReadCsv
    \/ Submit
    \/ AsCompletedStart
    \/ CollectInitial
    \/ CollectWaited
    \/ CollectNothing
    \/ PoolShutdown
    \/ PoolJoin
    \/ DumpBeforeScaling

\* the steps of worker thread w
WorkerThread(w) == WorkerTake(w) \/ WorkerFinish(w) \/ WorkerExit(w)

NextPool == MainThread \/ \E w \in Workers : WorkerThread(w)

\* where the threads are: every step of a thread changes it
threads == <<pc, err, work_queue, workers, waiter, yielded>>

\* no runnable thread is left waiting for ever
FairScheduling ==
    /\ WF_threads(MainThread)
    /\ \A w \in Workers : WF_threads(WorkerThread(w))

\* longest reviews table explored under fair scheduling
MaxPoolReviews == 3

\* a review whose text is parsed and one whose text is refused
PoolReviewRecords ==
    {[movie_id |-> "tt01", review_date |-> "3 January 2020",
      review_summary |-> "Great", review_text |-> "Bruce dies!",
      is_spoiler |-> TRUE],
     LongReview}

InitPool ==
    \E reviews \in SeqsUpTo(PoolReviewRecords, MaxPoolReviews) :
        InitWith(reviews, RunMovies)

SpecPool == InitPool /\ [][NextPool]_vars /\ FairScheduling

-----------------------------------------------------------------------------
(* The cap specification: cell 10 up to the last submit, on a joined-table
   file shorter than, as long as, and longer than the sample cap *)

\* most rows in the joined-table file
MaxCapRows == 2001

\* the reviews the rows of the file were joined from, in turn
CapRecords ==
    <<[movie_id |-> "tt01", review_date |-> "3 January 2020",
       review_summary |-> "Great", review_text |-> "Bruce dies!",
       is_spoiler |-> TRUE],
      [movie_id |-> "tt01", review_date |-> "25 December 2019",
       review_summary |-> "Dull", review_text |-> "film made in Paris by Fox",
       is_spoiler |-> FALSE],
      [movie_id |-> "tt01", review_date |-> "13 January 2020",
       review_summary |-> "Great", review_text |-> "film in 2019 : a dull film",
       is_spoiler |-> TRUE]>>

\* the row cell 8 wrote for review r
CsvRow(r) ==
    SubsetRow(MergeRow([r EXCEPT !.review_date = ParseDate(@)],
                       [RunMovies[1] EXCEPT !.release_date = ParseDate(@)]))

\* the lengths of the file: none, one, one below the cap, the cap, and above
CapLengths == {0, 1, SampleCap - 1, SampleCap} \cup ((SampleCap + 1)..MaxCapRows)

InitCap ==
    \E n \in CapLengths :
        FreshKernel("cell10",
                    [f \in FileNames |->
                        IF f = MERGED_CSV
                        THEN [exists |-> TRUE,
                              data |-> [i \in 1..n |-> CsvRow(CapRecords[(i % 3) + 1])]]
                        ELSE NoFile])

NextCap == ReadCsv \/ Submit \/ AsCompletedStart

SpecCap == InitCap /\ [][NextCap]_vars

-----------------------------------------------------------------------------
(* The end-to-end specification: the notebook on ten review/movie pairs, five
   of the movies with a release date of 10 characters and five with one of 9
   characters, three of the five reviews that keep their movie being
   spoilers *)

\* the movies of the ten pairs
PairIds == <<"tt01", "tt02", "tt03", "tt04", "tt05",
             "tt06", "tt07", "tt08", "tt09", "tt10">>

\* the pairs: `dated' are those whose movie has a 10-character release date,
\* `spoilers' those whose review is a spoiler
PairMovies(dated) ==
    [i \in 1..Len(PairIds) |->
        [movie_id |-> PairIds[i],
         release_date |-> IF i \in dated THEN "2020-01-01" ELSE "2020-1-01"]]

PairReviews(spoilers) ==
    [i \in 1..Len(PairIds) |->
        [movie_id |-> PairIds[i],
         review_date |-> "3 January 2020",
         review_summary |-> "Great",
         review_text |-> "Bruce dies!",
         is_spoiler |-> i \in spoilers]]

\* the ways to give five of the pairs a 10-character date: the first five,
\* or every other one
DatedChoices == {{1, 2, 3, 4, 5}, {1, 3, 5, 7, 9}}

InitEndToEnd ==
    \E dated \in DatedChoices :
        \E spoilers \in SUBSET (1..Len(PairIds)) :
            /\ Cardinality(spoilers \cap dated) = 3
            /\ spoilers \ dated = {}
            /\ InitWith(PairReviews(spoilers), PairMovies(dated))

\* the cells that run on these inputs
NextEndToEnd ==
    \/ LoadData
    \/ JoinAndFilter
    \/ ReadCsv
    \/ Submit
    \/ \E w \in Workers : WorkerTake(w)
    \/ \E w \in Workers : WorkerFinish(w)
    \/ \E w \in Workers : WorkerExit(w)
    \/ AsCompletedStart
    \/ CollectInitial
    \/ CollectWaited
    \/ PoolShutdown
    \/ PoolJoin
    \/ DumpBeforeScaling
    \/ Scale
    \/ DumpScaled
    \/ LoadScaled
    \/ Split

SpecEndToEnd == InitEndToEnd /\ [][NextEndToEnd]_vars

-----------------------------------------------------------------------------
(* Claims about the worker pool *)

\* record k of the capped table
Record(k) == files[MERGED_CSV].data[k]

\* the collected rows are in hand and not yet replaced by the scaled table
RowsCollected ==
    pc \in {"collect", "shutdown", "join", "dump", "scale", "dump_scaled", "cell11"}

\* C1: whatever the order in which the extraction tasks complete, the row at
\* position i of the feature table that cell 13 splits together with the
\* labels list was produced from the record whose label is labels[i].
C1_RowsAlignedWithLabels ==
    pc = "cell13" =>
        \A i \in 1..Len(processed_texts) :
            labels[i] = Record(yielded[i]).is_spoiler

\* C2: whatever the order in which the extraction tasks complete, every task
\* is submitted with the text and the days of one record, and every collected
\* row holds the days, the counts and the tokens of the record of the task
\* that produced it.
C2_RowFromOneSubmittedPair ==
    /\ \A k \in 1..Len(future_results) :
           /\ future_results[k].text = Record(k).review_combined
           /\ future_results[k].days = Record(k).days_since_release
    /\ RowsCollected =>
           /\ Len(processed_texts) = Len(yielded)
           /\ \A i \in 1..Len(processed_texts) :
                  LET doc == nlp(Record(yielded[i]).review_combined)
                  IN  /\ processed_texts[i].Days = Record(yielded[i]).days_since_release
                      /\ processed_texts[i].tokens = processed_text(doc)
                      /\ processed_texts[i] =
                             FeatureRow(doc, Record(yielded[i]).days_since_release)

\* the second of two records with different days was collected first
C2_Witness ==
    /\ pc = "dump"
    /\ yielded = <<2, 1>>
    /\ Record(1).days_since_release # Record(2).days_since_release
    /\ processed_texts[1].Days = Record(2).days_since_release

-----------------------------------------------------------------------------
(* Claims about the scaler *)

\* the scaled table is in df, next to the rows it was computed from
Scaled == pc \in {"dump_scaled", "cell11"}

Abs(x) == IF x < 0 THEN 0 - x ELSE x

\* |a - b| for two magnitudes
Distance(a, b) ==
    IF LessLimbs(a, b)
    THEN TrimLimbs(SubLimbs(b, a, 0))
    ELSE TrimLimbs(SubLimbs(a, b, 0))

\* v is not negative and differs from the quotient (x - data_min) / range by
\* at most (2 * (|x| + |data_min|) / range + 1) * 2^-52, which bounds the
\* rounding of the four double operations that compute it
WithinRounding(v, x, data_min, range) ==
    /\ ~v.neg
    /\ ~LessLimbs(TimesSmall(Pow2Limbs(FracBits - (Precision - 1)),
                             2 * (Abs(x) + Abs(data_min)) + range, 0),
                  Distance(TimesSmall(v.mag, range, 0),
                           TimesSmall(One.mag, x - data_min, 0)))

\* C5 (as stated): after scaling, every value of the eight numeric columns
\* lies in [0,1], the rows that held the column minimum hold exactly 0 and
\* the rows that held the column maximum hold exactly 1.
C5_ScaledInUnitInterval ==
    Scaled =>
        \A k \in 1..Len(NumCols) : \A i \in 1..Len(df) :
            LET c == NumCols[k]
            IN  /\ ~df[i][c].neg
                /\ ~LessLimbs(One.mag, df[i][c].mag)
                /\ processed_texts[i][c] = ColMin(processed_texts, c) => df[i][c] = Zero
                /\ processed_texts[i][c] = ColMax(processed_texts, c) => df[i][c] = One

\* C5 (amended): after scaling, every value of the eight numeric columns is
\* the double x * (1 / range) + (0 - min * (1 / range)) with range = max - min,
\* or 1 when max = min: it is never negative, it differs from
\* (x - min) / range by at most (2 * (|x| + |min|) / range + 1) * 2^-52, the
\* rows that held the column minimum hold exactly 0, and the rows that held
\* the maximum of a column with max > min hold 1 up to that difference only
\* (0.9999999999999999 and 1.0000000000000002 occur); in a column with
\* max = min every row holds 0.
C5_ScaledWithinRounding ==
    Scaled =>
        \A k \in 1..Len(NumCols) : \A i \in 1..Len(df) :
            LET c == NumCols[k]
                lo == ColMin(processed_texts, c)
                hi == ColMax(processed_texts, c)
            IN  /\ WithinRounding(df[i][c], processed_texts[i][c], lo,
                                  IF hi = lo THEN 1 ELSE hi - lo)
                /\ processed_texts[i][c] = lo => df[i][c] = Zero

\* a table scaled with a constant column, and with a row that held the
\* maximum of Days and now holds more than 1
C5_Witness ==
    /\ pc = "dump_scaled"
    /\ ColMin(processed_texts, "ORG_count") = ColMax(processed_texts, "ORG_count")
    /\ \E i \in 1..Len(df) :
           /\ processed_texts[i].Days = ColMax(processed_texts, "Days")
           /\ LessLimbs(One.mag, df[i].Days.mag)

\* C6: a numeric column with max = min over the table (the single-row table
\* included) is scaled without a division by zero: every row holds 0 in it,
\* and the scaler raises on no table that has a row.
C6_ConstantColumnScalesToZero ==
    /\ Scaled =>
           \A k \in 1..Len(NumCols) :
               ColMin(processed_texts, NumCols[k]) = ColMax(processed_texts, NumCols[k])
                   => \A i \in 1..Len(df) : df[i][NumCols[k]] = Zero
    /\ pc \in {"dump", "scale"} /\ processed_texts # <<>> => err = "none"
    /\ err = "ValueError: Found array with 0 sample(s)" => processed_texts = <<>>

\* a single-row table was scaled
C6_Witness ==
    /\ pc = "dump_scaled"
    /\ Len(df) = 1
    /\ \A k \in 1..Len(NumCols) : df[1][NumCols[k]] = Zero

\* the rows cell 10 extracted, as pickled before scaling
ExtractedRows == files[BEFORE_SCALING_PKL].data

\* the numeric block of a combined matrix row
NumericBlock(row) == SubSeq(row, Len(row) - Len(NumCols) + 1, Len(row))

\* C7: the scaler is fitted once, before the split; its minimum and maximum
\* of each column are taken over every extracted row, the rows that the split
\* puts in the test partition included; the split and the vectorizer pass
\* the scaled values on as the scaler left them.
C7_ScalerFitOnceOnAllRows ==
    /\ scaler.fits <= 1
    /\ (split.done \/ vectorizer.fits > 0) => scaler.fits = 1
    /\ scaler.fits = 1 =>
           \A k \in 1..Len(NumCols) :
               /\ \A i \in 1..Len(ExtractedRows) :
                      /\ scaler.data_min[k] <= ExtractedRows[i][NumCols[k]]
                      /\ ExtractedRows[i][NumCols[k]] <= scaler.data_max[k]
               /\ \E i \in 1..Len(ExtractedRows) :
                      ExtractedRows[i][NumCols[k]] = scaler.data_min[k]
               /\ \E i \in 1..Len(ExtractedRows) :
                      ExtractedRows[i][NumCols[k]] = scaler.data_max[k]
    /\ split.done =>
           /\ Range(split.train) \cup Range(split.test) = 1..Len(ExtractedRows)
           /\ \A j \in 1..Len(split.train) : split.X_train[j] = df[split.train[j]]
           /\ \A j \in 1..Len(split.test) : split.X_test[j] = df[split.test[j]]
    /\ vectorizer.fits > 0 =>
           /\ \A j \in 1..Len(split.train) :
                  NumericBlock(combined.X_train[j]) = AdditionalFeatures(df)[split.train[j]]
           /\ \A j \in 1..Len(split.test) :
                  NumericBlock(combined.X_test[j]) = AdditionalFeatures(df)[split.test[j]]

\* the split is done, and the only row of its test partition alone held the
\* maximum of a column when the scaler was fitted
C7_Witness ==
    /\ split.done
    /\ scaler.fits = 1
    /\ Len(split.test) = 1
    /\ \E k \in 1..Len(NumCols) :
           \A i \in 1..Len(ExtractedRows) :
               i # split.test[1] =>
                   ExtractedRows[i][NumCols[k]] < ExtractedRows[split.test[1]][NumCols[k]]

-----------------------------------------------------------------------------
(* Claims about the vectorizer *)

\* C8: the vocabulary holds n-grams of the training partition's token strings
\* only and is the one fitted on them; transforming the test partition leaves
\* it as fitted; the combined train and test matrices have the same columns
\* in the same order, the n-gram block first and the eight scaled numeric
\* columns after it.
C8_VocabularyFromTrainOnly ==
    vectorizer.fits > 0 =>
        /\ vectorizer.fits = 1
        /\ \A t \in Range(vectorizer.vocabulary) :
               \E j \in 1..Len(split.X_train) :
                   TermCount(Analyze(split.X_train[j].tokens), t) > 0
        /\ vectorizer.vocabulary = FitVocabulary(TokensOf(split.X_train))
        /\ combined.cols_train = combined.cols_test
        /\ combined.cols_train =
               vectorizer.vocabulary \o [k \in 1..Len(NumCols) |-> <<NumCols[k]>>]
        /\ \A j \in 1..Len(combined.X_train) :
               /\ Len(combined.X_train[j]) = Len(combined.cols_train)
               /\ NumericBlock(combined.X_train[j]) = AdditionalFeatures(split.X_train)[j]
        /\ \A j \in 1..Len(combined.X_test) :
               /\ Len(combined.X_test[j]) = Len(combined.cols_test)
               /\ NumericBlock(combined.X_test[j]) = AdditionalFeatures(split.X_test)[j]
               /\ \A k \in 1..Len(vectorizer.vocabulary) :
                      combined.X_test[j][k] =
                          FromInt(TermCount(Analyze(split.X_test[j].tokens),
                                            vectorizer.vocabulary[k]))

\* both matrices are built from a vocabulary of several n-grams, and the test
\* partition holds a word that the max_df limit kept out of the vocabulary
C8_Witness ==
    /\ pc = "dump_vectorized"
    /\ Len(vectorizer.vocabulary) > 1
    /\ combined.X_test # <<>>
    /\ \E w \in Range(Analyze(split.X_test[1].tokens)) :
           <<w>> \notin Range(vectorizer.vocabulary)

-----------------------------------------------------------------------------
(* Claims about the split *)

\* how many of the labels are True
TrueCount(y) == Count(y, LAMBDA b : b)

\* every row goes, with the label at its position, to exactly one partition
Partitioned ==
    /\ Range(split.train) \cup Range(split.test) = 1..Len(processed_texts)
    /\ Len(split.train) + Len(split.test) = Len(processed_texts)
    /\ \A j \in 1..Len(split.train) :
           /\ split.X_train[j] = processed_texts[split.train[j]]
           /\ split.y_train[j] = labels[split.train[j]]
    /\ \A j \in 1..Len(split.test) :
           /\ split.X_test[j] = processed_texts[split.test[j]]
           /\ split.y_test[j] = labels[split.test[j]]

\* the test partition holds 20% of the rows, rounded up to a whole row
FifthInTest ==
    /\ 5 * Len(split.test) >= Len(processed_texts)
    /\ 5 * (Len(split.test) - 1) < Len(processed_texts)

\* C9 (as stated): the split puts every scaled row, with the label at its
\* position, in exactly one of the two partitions, 20% of the rows in test,
\* and the number of True rows in test is within 1 of 20% of the number of
\* True rows overall.
C9_TestTrueWithinOneOfFifth ==
    split.done =>
        /\ Partitioned
        /\ FifthInTest
        /\ Abs(5 * TrueCount(split.y_test) - TrueCount(labels)) <= 5

\* C9 (amended): when the split succeeds it puts every scaled row, with the
\* label at its position, in exactly one of the two partitions, with
\* n_test = ceil(0.2 * n) of the n rows in test, and the number of True rows
\* in test is less than 1 away from n_test * T / n, T being the number of
\* True rows overall (which is 20% of T only when n is a multiple of 5).
C9_TestTrueWithinOneOfShare ==
    split.done =>
        /\ Partitioned
        /\ FifthInTest
        /\ Abs(Len(labels) * TrueCount(split.y_test)
                   - Len(split.test) * TrueCount(labels)) < Len(labels)

\* 21 rows with 19 True were split, and all 5 rows of the test partition are
\* True, 1.2 more than 20% of 19
C9_Witness ==
    /\ split.done
    /\ Len(labels) = 21
    /\ TrueCount(labels) = 19
    /\ TrueCount(split.y_test) = 5

-----------------------------------------------------------------------------
(* Claims about the order of the stages *)

\* the stage a cell belongs to
StageOf(at) ==
    CASE at \in {"cell6", "cell8"} -> 1
      [] at \in {"cell10", "submit", "collect", "shutdown", "join", "dump"} -> 2
      [] at \in {"scale", "dump_scaled"} -> 3
      [] at \in {"cell11", "cell13", "cell15", "dump_vectorized"} -> 4
      [] at \in {"cell17", "fit", "dump_pred", "done"} -> 5

\* the files a cell reads
ReadBy(at) ==
    CASE at = "cell6" -> {REVIEWS_JSON, MOVIES_JSON}
      [] at = "cell10" -> {MERGED_CSV}
      [] at = "cell11" -> {PROCESSED_PKL, LABELS_PKL}
      [] at = "cell17" -> {X_TRAIN_PKL, Y_TRAIN_PKL, X_TEST_PKL, Y_TEST_PKL}
      [] OTHER -> {}

\* C10: in a top-to-bottom run the stages run in the order 1, 2, 3, 4, 5,
\* every file a cell reads exists when the cell runs, so no read fails, and
\* the classifier is fitted on and predicts from what the four files written
\* at the end of stage 4 hold.
C10_StagesInOrderFromCheckpoints ==
    /\ [](/\ pc # "failed" => \A f \in ReadBy(pc) : files[f].exists
          /\ err \notin {"FileNotFoundError: " \o f : f \in FileNames}
          /\ pc \in {"fit", "dump_pred", "done"} =>
                 /\ stage5.X_train_vectorized = files[X_TRAIN_PKL].data
                 /\ stage5.y_train = files[Y_TRAIN_PKL].data
                 /\ stage5.X_test_vectorized = files[X_TEST_PKL].data
                 /\ stage5.y_test = files[Y_TEST_PKL].data
          /\ pc \in {"dump_pred", "done"} =>
                 /\ stage5.fit_X = files[X_TRAIN_PKL].data
                 /\ stage5.fit_y = files[Y_TRAIN_PKL].data
                 /\ Len(stage5.y_pred) = Len(files[X_TEST_PKL].data))
    /\ [][pc' # "failed" =>
              /\ StageOf(pc') \in {StageOf(pc), StageOf(pc) + 1}
              /\ \A f \in CheckpointFiles :
                     files[f].exists => files'[f] = files[f]]_vars

\* a run came to its end: the predictions are written, from a training
\* matrix read back from its file
C10_Witness ==
    /\ pc = "done"
    /\ files[Y_PRED_PKL].exists
    /\ stage5.fit_X = files[X_TRAIN_PKL].data
    /\ stage5.fit_X # <<>>

-----------------------------------------------------------------------------
(* Claims about a failing extraction *)

\* the task exception of the model
ExtractionError == "ValueError: text exceeds nlp.max_length"

\* a record of the capped table has a text that nlp refuses
SomeRecordFails ==
    /\ files[MERGED_CSV].exists
    /\ \E k \in 1..Len(Prefix(files[MERGED_CSV].data, SampleCap)) :
           NlpRaises(Record(k).review_combined)

\* C11: when the extraction of a record fails, the run never gets past the
\* worker pool and ends with the task's exception: the loop collects nothing
\* after the failed result, the rows of the records collected so far are not
\* passed on without it, no finished task is run again, neither the
\* extracted-features checkpoint nor any later file is written.
C11_FailurePropagates ==
    /\ [](SomeRecordFails =>
              /\ pc \in {"cell10", "submit", "collect", "shutdown", "join", "failed"}
              /\ \A f \in CheckpointFiles \ {MERGED_CSV} : ~files[f].exists
              /\ pc = "failed" => err = ExtractionError
              /\ err \in {"none", ExtractionError}
              /\ err = ExtractionError =>
                     /\ pc \in {"shutdown", "join", "failed"}
                     /\ NlpRaises(Record(yielded[Len(yielded)]).review_combined)
                     /\ Len(processed_texts) = Len(yielded) - 1)
    /\ [][/\ \A i \in 1..Len(future_results) :
                 future_results[i].state = "FINISHED"
                     => future_results'[i] = future_results[i]
          /\ \A i \in 1..Len(future_results) :
                 future_results[i].state = "RUNNING"
                     => future_results'[i].state \in {"RUNNING", "FINISHED"}
          /\ err = ExtractionError =>
                 processed_texts' = processed_texts /\ err' = err]_vars

\* a run has ended with the task's exception after the other two records
\* were collected, and the other tasks were run to their end
C11_Witness ==
    /\ pc = "failed"
    /\ err = ExtractionError
    /\ Len(processed_texts) = 2
    /\ Len(future_results) = 3
    /\ \A i \in 1..Len(future_results) : future_results[i].state = "FINISHED"

-----------------------------------------------------------------------------
(* Claims about what the stages change *)

\* cell 8 has run to its end
Joined == files[MERGED_CSV].exists

\* the columns pd.merge gave row i of merged_df
AsMerged(i) ==
    MergeRow(merged_df[i], merged_df[i])

\* the lists of cell 10 are those of the capped table
ListsAsRead ==
    LET capped == Prefix(files[MERGED_CSV].data, SampleCap)
    IN  /\ texts = [i \in 1..Len(capped) |-> capped[i].review_combined]
        /\ days_since_review = [i \in 1..Len(capped) |-> capped[i].days_since_release]
        /\ labels = [i \in 1..Len(capped) |-> capped[i].is_spoiler]

\* what no stage changes once it exists: the input files, the three lists,
\* the list of collected rows and its checkpoint, the tokens, and the
\* partitions the split returned
KeptAsCreated ==
    /\ files[REVIEWS_JSON].exists /\ files[MOVIES_JSON].exists
    /\ pc \in {"submit", "collect", "shutdown", "join", "dump", "scale",
               "dump_scaled", "cell11"} => ListsAsRead
    /\ pc \in {"scale", "dump_scaled", "cell11"} =>
           processed_texts = files[BEFORE_SCALING_PKL].data
    /\ Scaled =>
           /\ Len(df) = Len(processed_texts)
           /\ \A i \in 1..Len(df) : df[i].tokens = processed_texts[i].tokens
    /\ split.done =>
           /\ split.X_train = Take(processed_texts, split.train)
           /\ split.X_test = Take(processed_texts, split.test)
           /\ split.y_train = Take(labels, split.train)
           /\ split.y_test = Take(labels, split.test)

\* C12 (as stated): no table or list is changed after it is created: after
\* the date conversion df_reviews and df_movies are as read_json and the
\* filter made them, merged_df is as pd.merge made it, after scaling df is as
\* pd.DataFrame(processed_texts) made it, and the lists, the inputs and the
\* partitions are as created.
C12_NoEntityMutated ==
    /\ KeptAsCreated
    /\ Joined =>
           /\ df_reviews = files[REVIEWS_JSON].data
           /\ df_movies = filter_valid_release_dates(files[MOVIES_JSON].data)
           /\ merged_df = Merge(df_reviews, df_movies)
    /\ Scaled =>
           \A i \in 1..Len(df) : \A k \in 1..Len(NumCols) :
               df[i][NumCols[k]] = FromInt(processed_texts[i][NumCols[k]])

\* C12 (amended): the date conversion, the derived columns and the scaling
\* assign columns of existing tables in place: after cell 8 the review_date
\* column of df_reviews and the release_date column of df_movies hold the
\* Timestamps of the strings that were read, with the rows and the other
\* columns as read (and filtered); merged_df holds the rows of pd.merge with
\* the columns days_since_release and review_combined added; after scaling
\* the eight numeric columns of df hold the scaled values in place of the
\* extracted ones, with the tokens column unchanged.  The input files, the
\* lists labels, texts, days_since_review and processed_texts, and the
\* partitions returned by the split are not changed after they are created.
C12_ColumnsAssignedInPlace ==
    /\ KeptAsCreated
    /\ Joined =>
           /\ Len(df_reviews) = Len(files[REVIEWS_JSON].data)
           /\ \A i \in 1..Len(df_reviews) :
                  LET read == files[REVIEWS_JSON].data[i]
                  IN  /\ df_reviews[i].review_date = ParseDate(read.review_date)
                      /\ [df_reviews[i] EXCEPT !.review_date = read.review_date] = read
           /\ Len(df_movies) = Len(filter_valid_release_dates(files[MOVIES_JSON].data))
           /\ \A i \in 1..Len(df_movies) :
                  LET read == filter_valid_release_dates(files[MOVIES_JSON].data)[i]
                  IN  /\ df_movies[i].release_date = ParseDate(read.release_date)
                      /\ [df_movies[i] EXCEPT !.release_date = read.release_date] = read
           /\ Len(merged_df) = Len(Merge(df_reviews, df_movies))
           /\ \A i \in 1..Len(merged_df) :
                  /\ AsMerged(i) = Merge(df_reviews, df_movies)[i]
                  /\ DOMAIN merged_df[i] =
                         DOMAIN AsMerged(i) \cup {"days_since_release", "review_combined"}
    /\ Scaled =>
           \A i \in 1..Len(df) : \A k \in 1..Len(NumCols) :
               df[i][NumCols[k]] =
                   ScaleWith(processed_texts[i][NumCols[k]],
                             ColMin(processed_texts, NumCols[k]),
                             IF ColMax(processed_texts, NumCols[k])
                                    = ColMin(processed_texts, NumCols[k])
                             THEN 1
                             ELSE ColMax(processed_texts, NumCols[k])
                                      - ColMin(processed_texts, NumCols[k]))

\* the three tables of cell 8 and the table of cell 10 hold other values
\* than the statements that created them gave them
C12_Witness ==
    /\ pc = "dump_scaled"
    /\ df_reviews # files[REVIEWS_JSON].data
    /\ df_movies # filter_valid_release_dates(files[MOVIES_JSON].data)
    /\ merged_df # <<>>
    /\ merged_df # Merge(df_reviews, df_movies)
    /\ \E i \in 1..Len(df) : df[i].Days # FromInt(processed_texts[i].Days)
    /\ \E i \in 1..Len(df) : df[i].tokens # <<>>

-----------------------------------------------------------------------------
(* Claims about the end-to-end run on ten pairs *)

TestSizeError ==
    "ValueError: The test_size should be greater or equal to the number of classes"

\* C13 (as stated): on ten review/movie pairs of which five movies have a
\* 10-character release date, the join keeps exactly 5 rows, and with 3
\* spoilers and 2 non-spoilers among them the stratified 80/20 split
\* completes with a train partition of 4 rows and a test partition of 1 row
C13_EndToEndSplitCompletes ==
    /\ Joined => Len(merged_df) = 5
    /\ pc # "failed"
    /\ pc = "cell15" => /\ split.done
                        /\ Len(split.y_train) = 4
                        /\ Len(split.y_test) = 1

\* C13 (amended): on the same ten pairs the join keeps exactly 5 rows, the
\* rows of the five movies with a 10-character date; stages 1 and 2 complete
\* on them, and the stratified split of the 5 rows with labels 3/2 raises a
\* ValueError, because its test partition of 1 row is smaller than the 2
\* classes: no partition is produced
C13_EndToEndSplitRaises ==
    /\ Joined =>
          /\ Len(merged_df) = 5
          /\ {merged_df[i].movie_id : i \in 1..Len(merged_df)}
                = {m.movie_id : m \in {x \in Range(MoviesRead) : Len(x.release_date) = 10}}
    /\ err \in {"none", TestSizeError}
    /\ ~split.done
    /\ pc # "cell15"
    /\ pc = "failed" =>
          /\ err = TestSizeError
          /\ Len(processed_texts) = 5
          /\ Len(labels) = 5
          /\ TrueCount(labels) = 3
          /\ NTrain(Len(labels)) = 4
          /\ NTest(Len(labels)) = 1
          /\ files[PROCESSED_PKL].exists
          /\ files[LABELS_PKL].exists

\* the run on the ten pairs ended at the split, with 5 rows and labels 3/2
C13_Witness ==
    /\ pc = "failed"
    /\ err = TestSizeError
    /\ Len(merged_df) = 5
    /\ Len(df_reviews) = 10
    /\ Len(labels) = 5
    /\ TrueCount(labels) = 3

-----------------------------------------------------------------------------
(* Claims about the sample cap *)

\* the rows of the joined-table file, in stored order
Stored == files[MERGED_CSV].data

\* min(N, 2000) for the N rows of the file
Capped == IF Len(Stored) < SampleCap THEN Len(Stored) ELSE SampleCap

\* C14: the cap is applied before extraction: when the file has been read and
\* no task is submitted yet, texts, days_since_review and labels have
\* min(N, 2000) entries and entry i is the column value of stored row i; no
\* submission changes these lists or the file; tasks are submitted in list
\* order for those rows only, task i on texts[i] and days_since_review[i], and
\* when the submissions end there is one task for each of the min(N, 2000) rows
C14_CapBeforeExtraction ==
    /\ [](/\ pc = "cell10" => future_results = <<>>
          /\ (pc \in {"submit", "collect"} /\ future_results = <<>>) =>
                /\ Len(df) = Capped
                /\ Len(texts) = Capped
                /\ Len(days_since_review) = Capped
                /\ Len(labels) = Capped
                /\ \A i \in 1..Capped :
                      /\ df[i] = Stored[i]
                      /\ texts[i] = Stored[i].review_combined
                      /\ days_since_review[i] = Stored[i].days_since_release
                      /\ labels[i] = Stored[i].is_spoiler
          /\ pc \in {"submit", "collect"} =>
                /\ Len(future_results) <= Capped
                /\ Len(texts) = Capped
                /\ \A i \in 1..Len(future_results) :
                      /\ future_results[i].text = texts[i]
                      /\ future_results[i].days = days_since_review[i]
          /\ pc = "collect" => Len(future_results) = Capped)
    /\ [][pc = "submit" =>
              /\ df' = df
              /\ texts' = texts
              /\ days_since_review' = days_since_review
              /\ labels' = labels
              /\ files' = files
              /\ Len(future_results') <= Len(future_results) + 1]_vars

\* a file of more rows than the cap was read, the lists hold the capped
\* prefix, and the tasks of its first two rows are submitted
C14_Witness ==
    /\ pc = "submit"
    /\ Len(Stored) > SampleCap
    /\ Len(labels) = SampleCap
    /\ Len(texts) = SampleCap
    /\ Len(future_results) = 2
    /\ future_results[2].text = Stored[2].review_combined
    /\ future_results[1].text # future_results[2].text

-----------------------------------------------------------------------------
(* Claims about concurrency *)

\* the tasks that are executing, and the threads besides the main thread
Running == {i \in 1..Len(future_results) : future_results[i].state = "RUNNING"}

LiveWorkers == {w \in Workers : workers[w].spawned /\ ~workers[w].exited}

\* the positions of the main thread inside the with block of cell 10
InPool == {"submit", "collect", "shutdown", "join"}

\* C15: at every moment at most max_workers = 2 preprocess tasks are
\* executing, each of them on a worker thread of the pool that runs no other
\* task; the only threads besides the main thread are the at most two pool
\* workers; and while the main thread is outside the with block of cell 10
\* (every other stage, and a run that failed) no worker thread is alive, no
\* task is executing and none is waiting to execute
C15_AtMostTwoTasksAndOnlyInThePool ==
    /\ Cardinality(Running) <= max_workers
    /\ Running = {workers[w].task : w \in {v \in Workers : workers[v].task # 0}}
    /\ \A v, w \in Workers :
          (workers[v].task # 0 /\ workers[v].task = workers[w].task) => v = w
    /\ \A w \in Workers : workers[w].task # 0 => w \in LiveWorkers
    /\ Cardinality(LiveWorkers) <= max_workers
    /\ pc \notin InPool =>
          /\ LiveWorkers = {}
          /\ Running = {}
          /\ work_queue = <<>>
          /\ \A i \in 1..Len(future_results) : future_results[i].state = "FINISHED"

\* two tasks are executing on the two workers while a third one waits
C15_Witness ==
    /\ pc \in InPool
    /\ Cardinality(Running) = max_workers
    /\ Cardinality(LiveWorkers) = max_workers
    /\ work_queue # <<>>

-----------------------------------------------------------------------------
(* Claims about the collected results *)

\* no submitted task raises
NoTaskFails == \A i \in 1..Len(future_results) : ~NlpRaises(future_results[i].text)

\* the loop over as_completed has ended and the rows are not yet scaled
LoopDone == pc \in {"shutdown", "join", "dump", "scale"}

\* C16: when no task fails, whatever the interleaving: while results are
\* collected no task is collected twice and each collected task gave one
\* row; when the loop has ended processed_texts has one row per submitted
\* record, as many as labels, and its rows are the preprocess outputs of the
\* records in the order of collection, a permutation of the records; and in
\* cell 10 processed_texts changes only by the main thread appending, inside
\* the loop, the result of the future just yielded
C16_OneResultPerRecord ==
    /\ [](NoTaskFails =>
            /\ pc \in InPool =>
                  /\ Len(processed_texts) = Len(yielded)
                  /\ \A i, j \in 1..Len(yielded) : yielded[i] = yielded[j] => i = j
                  /\ Range(yielded) \subseteq 1..Len(future_results)
            /\ LoopDone =>
                  /\ err = "none"
                  /\ Len(processed_texts) = Len(future_results)
                  /\ Len(processed_texts) = Len(labels)
                  /\ Range(yielded) = 1..Len(labels)
                  /\ \A i \in 1..Len(processed_texts) :
                        processed_texts[i] =
                            preprocess(texts[yielded[i]], days_since_review[yielded[i]]))
    /\ [][(pc \in InPool /\ processed_texts' # processed_texts) =>
              /\ pc = "collect"
              /\ workers' = workers
              /\ future_results' = future_results
              /\ Len(yielded') = Len(yielded) + 1
              /\ processed_texts' =
                    processed_texts \o future_results[yielded'[Len(yielded')]].result]_vars

\* three tasks ran without failing, the second was collected first, and the
\* loop has ended
C16_Witness ==
    /\ pc = "dump"
    /\ NoTaskFails
    /\ Len(processed_texts) = 3
    /\ Len(labels) = 3
    /\ yielded[1] = 2
    /\ processed_texts[1] # processed_texts[2]

-----------------------------------------------------------------------------
(* Claims about termination of the extraction *)

\* every preprocess call of the run returns a row
EveryCallReturns == \A i \in 1..Len(texts) : ~NlpRaises(texts[i])

\* the extraction stage has ended as it should
ExtractionCompleted ==
    /\ pc = "scale"
    /\ err = "none"
    /\ files[BEFORE_SCALING_PKL].exists
    /\ executor.shutdown
    /\ LiveWorkers = {}
    /\ Len(future_results) = Len(texts)
    /\ \A i \in 1..Len(future_results) : future_results[i].state = "FINISHED"
    /\ Range(yielded) = 1..Len(future_results)
    /\ Len(processed_texts) = Len(texts)

\* C17: under fair scheduling of the main thread and the two workers, cell 10
\* always ends, and when every preprocess call returns it ends with every
\* task executed and collected, the loop finished, the pool shut down, its
\* workers gone and the extracted-features checkpoint written; every task
\* that is submitted is eventually finished, whatever the other tasks do
C17_ExtractionTerminates ==
    /\ (pc = "cell10") ~> (pc \in {"scale", "failed"})
    /\ (pc = "submit" /\ EveryCallReturns) ~> ExtractionCompleted
    /\ \A i \in 1..MaxPoolReviews :
          (Len(future_results) >= i) ~>
              (Len(future_results) >= i /\ future_results[i].state = "FINISHED")

\* three tasks ran, not collected in the order of submission, and the
\* checkpoint is written
C17_Witness ==
    /\ ExtractionCompleted
    /\ Len(texts) = 3
    /\ yielded[1] = 3
    /\ Len(ExtractedRows) = 3

=============================================================================
